---- MODULE Spec2Model ----
(***************************************************************************)
(* Event-driven backtest core of the quant repository: BacktestEngine,     *)
(* SimulatedBroker, Portfolio and the Strategy contract.                   *)
(*                                                                         *)
(* Money and prices are exact fixed-point integers: one unit is 1e-5 of    *)
(* the currency, so a price tick (4 decimals, the grid of                  *)
(* calculate_slippage) is Tick units and a cent (2 decimals, the grid of   *)
(* calculate_commission and of the equity snapshot) is Cent units.  Python *)
(* round() is modelled as round-half-to-even on the exact value.           *)
(***************************************************************************)
EXTENDS Integers, Sequences, FiniteSets, TLC

\* ------------------------------------------------------------------ bounds
\* longest bar table replayed
MaxBars == 2
\* most buy()/sell() calls the strategy makes in one run, over all its
\* on_bar and on_order_filled calls
MaxCalls == 3

\* ------------------------------------------------------- program constants
\* units per price tick: round(price, 4)
Tick == 10
\* units per cent: round(commission, 2), round(cash, 2)
Cent == 1000
\* min_commission = 5.0, in units
MinCommission == 500000
\* commission_rate and stamp_tax are fractions RateNum / RateDen
RateDen == 10000
\* stamp_tax = 0.001 = StampTaxNum / RateDen
StampTaxNum == 10
\* slippage is the fraction SlipNum / SlipDen
SlipDen == 1000
\* A-share lot: quantity = (quantity // 100) * 100
LotA == 100
\* cash * 0.95 = cash * BufferNum / BufferDen (95/100 in lowest terms)
BufferNum == 19
BufferDen == 20

Engines == {1, 2}

\* ----------------------------------------------------------------- inputs
\* Optional[float]: <<>> is None, <<p>> is the price p
NoPrice == <<>>

\* Engine configurations (BacktestEngine.__init__ arguments), in units.
\*   floor+tax market "A", default commission 0.0003 and slippage 0.001
\*   proportional market "US", commission 0.0003, slippage 0
ConfigSet ==
  { [market |-> "A",  capital |-> 1000000, rateNum |-> 3, slipNum |-> 1, symbol |-> "UNKNOWN"],
    [market |-> "US", capital |-> 1000000, rateNum |-> 3, slipNum |-> 0, symbol |-> "UNKNOWN"] }

\* OHLC rows a bar table is drawn from (low, close, high in units): a close
\* of 2.0, a close of 0.05004 (not a multiple of the price tick), a zero close.
BarSet ==
  { [low |-> 150000, close |-> 200000, high |-> 250000],
    [low |-> 4000,   close |-> 5004,   high |-> 6000],
    [low |-> 0,      close |-> 0,      high |-> 0] }

\* What one Strategy.buy()/sell() call is given: (volume, price, order_type).
SignalSet ==
  { [direction |-> "BUY",  volume |-> 0, order_type |-> "MARKET", price |-> NoPrice],
    [direction |-> "BUY",  volume |-> 2, order_type |-> "MARKET", price |-> NoPrice],
    [direction |-> "SELL", volume |-> 0, order_type |-> "MARKET", price |-> NoPrice],
    [direction |-> "SELL", volume |-> 1, order_type |-> "MARKET", price |-> NoPrice] }

VARIABLES
  cfg,        \* the configuration both engines are constructed with
  data,       \* the bar table (engine.data), rows carry datetime = bar.name
  engine,     \* per engine: pc, _context._current_idx, event_queue
  portfolio,  \* per engine: cash, position, position_avg_cost, trades, equity_curve
  broker,     \* per engine: SimulatedBroker._order_count
  plan,       \* the (deterministic) strategy's decisions, fixed when first taken
  trace       \* per engine, history: events dispatched in the current bar, fills seen

vars == <<cfg, data, engine, portfolio, broker, plan, trace>>


\* ------------------------------------------------------------- arithmetic
Max(a, b) == IF a >= b THEN a ELSE b
Min(a, b) == IF a <= b THEN a ELSE b
Abs(a) == IF a >= 0 THEN a ELSE -a

RECURSIVE Gcd(_, _)
Gcd(a, b) == IF b = 0 THEN a ELSE Gcd(b, a % b)

\* Python round(): the integer nearest to base + n/d, ties to the even one (d > 0).
RoundHalfEven(base, n, d) ==
  LET lo == base + (n \div d)
      r  == n % d
  IN  IF 2 * r < d THEN lo
      ELSE IF 2 * r > d THEN lo + 1
      ELSE IF lo % 2 = 0 THEN lo ELSE lo + 1

\* Python int(n/d): truncation toward zero (d > 0).
Trunc(n, d) == IF n >= 0 THEN n \div d ELSE -((-n) \div d)

\* An exact fraction num/den in lowest terms (den > 0); position_avg_cost is one.
Frac(num, den) ==
  LET g == Gcd(Abs(num), den) IN
  IF num = 0 THEN <<0, 1>> ELSE <<num \div g, den \div g>>

\* ----------------------------------------------------------------- events
\* engine/event.py: the four event records, in one record shape.  id, parent
\* and base are history fields: the event's number within its bar, the number
\* of the event whose dispatch created it, and the pre-slippage price.
MarketEvent(dt, id) ==
  [type |-> "MARKET", datetime |-> dt, symbol |-> "", direction |-> "",
   quantity |-> 0, order_type |-> "", price |-> NoPrice, fill_price |-> 0,
   commission |-> 0, slippage_cost |-> 0, id |-> id, parent |-> 0, base |-> 0]

SignalEvent(dt, symbol, direction, volume, order_type, limit_price, id, parent) ==
  [type |-> "SIGNAL", datetime |-> dt, symbol |-> symbol, direction |-> direction,
   quantity |-> volume, order_type |-> order_type, price |-> limit_price,
   fill_price |-> 0, commission |-> 0, slippage_cost |-> 0,
   id |-> id, parent |-> parent, base |-> 0]

OrderEvent(signal, quantity, id) ==
  [type |-> "ORDER", datetime |-> signal.datetime, symbol |-> signal.symbol,
   direction |-> signal.direction, quantity |-> quantity,
   order_type |-> signal.order_type, price |-> signal.price,
   fill_price |-> 0, commission |-> 0, slippage_cost |-> 0,
   id |-> id, parent |-> signal.id, base |-> 0]

FillEvent(order, actual_price, commission, slippage_cost, base, id) ==
  [type |-> "FILL", datetime |-> order.datetime, symbol |-> order.symbol,
   direction |-> order.direction, quantity |-> order.quantity,
   order_type |-> "", price |-> NoPrice,
   fill_price |-> actual_price, commission |-> commission,
   slippage_cost |-> slippage_cost, id |-> id, parent |-> order.id, base |-> base]

\* -------------------------------------------------------------- portfolio
\* Portfolio.__init__
NewPortfolio(conf) ==
  [cash |-> conf.capital, position |-> 0, position_avg_cost |-> <<0, 1>>,
   trades |-> <<>>, equity_curve |-> <<>>]

\* calculate_slippage with the two directions exchanged
calculate_slippage_FavoursTrader(conf, price, direction) ==
  IF direction = "BUY"
  THEN Tick * RoundHalfEven(0, price * (SlipDen - conf.slipNum), SlipDen * Tick)
  ELSE Tick * RoundHalfEven(0, price * (SlipDen + conf.slipNum), SlipDen * Tick)

\* Portfolio.calculate_slippage: round(price * (1 +/- slippage), 4)
calculate_slippage(conf, price, direction) ==
  IF direction = "BUY"
  THEN Tick * RoundHalfEven(0, price * (SlipDen + conf.slipNum), SlipDen * Tick)
  ELSE Tick * RoundHalfEven(0, price * (SlipDen - conf.slipNum), SlipDen * Tick)

\* calculate_commission that charges the stamp tax on both directions
calculate_commission_TaxOnBuy(conf, price, quantity, direction) ==
  LET trade_amount == price * quantity
      Share(k) == LET n == (trade_amount % RateDen) * k IN
                  <<(trade_amount \div RateDen) * k + n \div RateDen, n % RateDen>>
      prop  == Share(conf.rateNum)
      floor == conf.market = "A" /\ prop[1] < MinCommission
      base  == IF floor THEN <<MinCommission, 0>> ELSE prop
      tax   == IF conf.market = "A" THEN Share(StampTaxNum) ELSE <<0, 0>>
      whole == base[1] + tax[1]
      part  == base[2] + tax[2]
  IN  Cent * RoundHalfEven(whole \div Cent, (whole % Cent) * RateDen + part, RateDen * Cent)

\* Portfolio.calculate_commission.  An amount is kept as <<whole, part>>, worth
\* whole + part / RateDen units; Share(k) is trade_amount * k / RateDen, so
\* the fee before round(commission, 2) is exact for every trade_amount.
calculate_commission(conf, price, quantity, direction) ==
  LET trade_amount == price * quantity
      Share(k) == LET n == (trade_amount % RateDen) * k IN
                  <<(trade_amount \div RateDen) * k + n \div RateDen, n % RateDen>>
      prop  == Share(conf.rateNum)
      floor == conf.market = "A" /\ prop[1] < MinCommission
      base  == IF floor THEN <<MinCommission, 0>> ELSE prop
      tax   == IF conf.market = "A" /\ direction = "SELL"
               THEN Share(StampTaxNum) ELSE <<0, 0>>
      whole == base[1] + tax[1]
      part  == base[2] + tax[2]
  IN  Cent * RoundHalfEven(whole \div Cent, (whole % Cent) * RateDen + part, RateDen * Cent)

\* a Trade that leaves the fill's slippage cost out
Trade_DropsSlippage(fill) ==
  [datetime |-> fill.datetime, symbol |-> fill.symbol, direction |-> fill.direction,
   price |-> fill.fill_price, quantity |-> fill.quantity,
   commission |-> fill.commission, slippage |-> 0]

\* Trade: the record execute_fill appends to the history
Trade(fill) ==
  [datetime |-> fill.datetime, symbol |-> fill.symbol, direction |-> fill.direction,
   price |-> fill.fill_price, quantity |-> fill.quantity,
   commission |-> fill.commission, slippage |-> fill.slippage_cost]

\* execute_fill with the position updated before the funds check
execute_fill_CheckAfterUpdate(p, fill) ==
  LET cost == fill.fill_price * fill.quantity IN
  IF fill.direction = "BUY" /\ cost + fill.commission > p.cash
  THEN <<FALSE, [p EXCEPT !.position = @ + fill.quantity]>>
  ELSE IF fill.direction = "SELL" /\ fill.quantity > p.position
  THEN <<FALSE, p>>
  ELSE <<TRUE,
         [p EXCEPT !.position = IF fill.direction = "BUY" THEN @ + fill.quantity
                                ELSE @ - fill.quantity,
                   !.cash = IF fill.direction = "BUY" THEN @ - cost - fill.commission
                            ELSE @ + cost - fill.commission,
                   !.trades = Append(@, Trade(fill))]>>

\* execute_fill that keeps position_avg_cost when the position is sold out
execute_fill_KeepCost(p, fill) ==
  LET cost == fill.fill_price * fill.quantity
      avg  == p.position_avg_cost
  IN
  IF fill.direction = "BUY" /\ cost + fill.commission > p.cash THEN <<FALSE, p>>
  ELSE IF fill.direction = "SELL" /\ fill.quantity > p.position THEN <<FALSE, p>>
  ELSE <<TRUE,
         [p EXCEPT !.position = IF fill.direction = "BUY" THEN @ + fill.quantity
                                ELSE @ - fill.quantity,
                   !.position_avg_cost =
                      IF fill.direction = "BUY"
                      THEN Frac(avg[1] * p.position + cost * avg[2],
                                avg[2] * (p.position + fill.quantity))
                      ELSE avg,
                   !.cash = IF fill.direction = "BUY" THEN @ - cost - fill.commission
                            ELSE @ + cost - fill.commission,
                   !.trades = Append(@, Trade(fill))]>>

\* execute_fill with the SELL revenue credited before commission
execute_fill_SellGross(p, fill) ==
  LET cost == fill.fill_price * fill.quantity IN
  IF fill.direction = "BUY" /\ cost + fill.commission > p.cash THEN <<FALSE, p>>
  ELSE IF fill.direction = "SELL" /\ fill.quantity > p.position THEN <<FALSE, p>>
  ELSE <<TRUE,
         [p EXCEPT !.position = IF fill.direction = "BUY" THEN @ + fill.quantity
                                ELSE @ - fill.quantity,
                   !.cash = IF fill.direction = "BUY" THEN @ - cost - fill.commission
                            ELSE @ + cost,
                   !.trades = Append(@, Trade(fill))]>>

\* execute_fill whose BUY takes the fill's price as the new average cost
execute_fill_AvgIgnoresOld(p, fill) ==
  LET cost == fill.fill_price * fill.quantity IN
  IF fill.direction = "BUY" /\ cost + fill.commission > p.cash THEN <<FALSE, p>>
  ELSE IF fill.direction = "SELL" /\ fill.quantity > p.position THEN <<FALSE, p>>
  ELSE <<TRUE,
         [p EXCEPT !.position = IF fill.direction = "BUY" THEN @ + fill.quantity
                                ELSE @ - fill.quantity,
                   !.position_avg_cost =
                      IF fill.direction = "BUY" THEN Frac(fill.fill_price, 1)
                      ELSE IF p.position = fill.quantity THEN <<0, 1>> ELSE @,
                   !.cash = IF fill.direction = "BUY" THEN @ - cost - fill.commission
                            ELSE @ + cost - fill.commission,
                   !.trades = Append(@, Trade(fill))]>>

\* Portfolio.execute_fill: <<returned value, portfolio afterwards>>
execute_fill(p, fill) ==
  LET cost == fill.fill_price * fill.quantity IN
  IF fill.direction = "BUY" THEN
    LET total_cost  == cost + fill.commission
        avg         == p.position_avg_cost
        \* total_value = position_avg_cost * position + cost, over avg[2]
        total_value == avg[1] * p.position + cost * avg[2]
        position    == p.position + fill.quantity
    IN  IF total_cost > p.cash THEN <<FALSE, p>>
        ELSE <<TRUE,
               [p EXCEPT !.position = position,
                         !.position_avg_cost =
                            IF position > 0 THEN Frac(total_value, avg[2] * position)
                            ELSE avg,
                         !.cash = p.cash - total_cost,
                         !.trades = Append(p.trades, Trade(fill))]>>
  ELSE IF fill.direction = "SELL" THEN
    LET revenue  == cost - fill.commission
        position == p.position - fill.quantity
    IN  IF fill.quantity > p.position THEN <<FALSE, p>>
        ELSE <<TRUE,
               [p EXCEPT !.cash = p.cash + revenue,
                         !.position = position,
                         !.position_avg_cost =
                            IF position = 0 THEN <<0, 1>> ELSE p.position_avg_cost,
                         !.trades = Append(p.trades, Trade(fill))]>>
  ELSE <<TRUE, [p EXCEPT !.trades = Append(p.trades, Trade(fill))]>>

\* update_market_value that records no row while the account is flat
update_market_value_SkipFlat(p, datetime, close_price) ==
  IF p.position = 0 THEN p
  ELSE [p EXCEPT !.equity_curve = Append(@,
         [datetime     |-> datetime,
          cash         |-> Cent * RoundHalfEven(0, p.cash, Cent),
          market_value |-> Cent * RoundHalfEven(0, p.position * close_price, Cent),
          total_equity |-> Cent * RoundHalfEven(0, p.cash + p.position * close_price, Cent),
          position     |-> p.position])]

\* update_market_value that stores the rounded cash it reports back into the ledger
update_market_value_RoundsCash(p, datetime, close_price) ==
  [p EXCEPT !.cash = Cent * RoundHalfEven(0, p.cash, Cent),
            !.equity_curve = Append(@,
         [datetime     |-> datetime,
          cash         |-> Cent * RoundHalfEven(0, p.cash, Cent),
          market_value |-> Cent * RoundHalfEven(0, p.position * close_price, Cent),
          total_equity |-> Cent * RoundHalfEven(0, p.cash + p.position * close_price, Cent),
          position     |-> p.position])]

\* update_market_value that cuts the amounts down to whole cents
update_market_value_Truncates(p, datetime, close_price) ==
  LET market_value == p.position * close_price
      total_equity == p.cash + market_value
  IN  [p EXCEPT !.equity_curve = Append(p.equity_curve,
         [datetime     |-> datetime,
          cash         |-> Cent * Trunc(p.cash, Cent),
          market_value |-> Cent * Trunc(market_value, Cent),
          total_equity |-> Cent * Trunc(total_equity, Cent),
          position     |-> p.position])]

\* Portfolio.update_market_value
update_market_value(p, datetime, close_price) ==
  LET market_value == p.position * close_price
      total_equity == p.cash + market_value
  IN  [p EXCEPT !.equity_curve = Append(p.equity_curve,
         [datetime     |-> datetime,
          cash         |-> Cent * RoundHalfEven(0, p.cash, Cent),
          market_value |-> Cent * RoundHalfEven(0, market_value, Cent),
          total_equity |-> Cent * RoundHalfEven(0, total_equity, Cent),
          position     |-> p.position])]

\* ----------------------------------------------------------------- broker
\* the base price with a touched LIMIT BUY taken at its limit price
BasePrice_BuyAtLimit(order, bar) ==
  IF order.order_type = "MARKET" THEN <<bar.close>>
  ELSE IF order.order_type = "LIMIT" THEN
    IF order.direction = "BUY"
    THEN IF order.price[1] < bar.low THEN <<>>
         ELSE <<order.price[1]>>
    ELSE IF order.price[1] > bar.high THEN <<>>
         ELSE <<Max(order.price[1], bar.close)>>
  ELSE <<>>

\* the base price with a touched LIMIT SELL taken at the close
BasePrice_SellAtClose(order, bar) ==
  IF order.order_type = "MARKET" THEN <<bar.close>>
  ELSE IF order.order_type = "LIMIT" THEN
    IF order.direction = "BUY"
    THEN IF order.price[1] < bar.low THEN <<>>
         ELSE <<Min(order.price[1], bar.close)>>
    ELSE IF order.price[1] > bar.high THEN <<>>
         ELSE <<bar.close>>
  ELSE <<>>

\* SimulatedBroker.execute_order, step 1, for a LIMIT order whose price is
\* None: the comparison of None with the bar's low or high raises TypeError
LimitPriceMissing(order) == order.order_type = "LIMIT" /\ order.price = NoPrice

\* SimulatedBroker.execute_order, step 1: the base price, <<>> when the order
\* is not executable against the bar (the order carries a limit price then).
BasePrice(order, bar) ==
  IF order.order_type = "MARKET" THEN <<bar.close>>
  ELSE IF order.order_type = "LIMIT" THEN
    IF order.direction = "BUY"
    THEN IF order.price[1] < bar.low THEN <<>>
         ELSE <<Min(order.price[1], bar.close)>>
    ELSE IF order.price[1] > bar.high THEN <<>>
         ELSE <<Max(order.price[1], bar.close)>>
  ELSE <<>>

\* execute_order whose funds check leaves the commission out
execute_order_PriceOnlyCheck(conf, order, bar, p, id) ==
  LET base == BasePrice(order, bar) IN
  IF base = <<>> THEN <<>>
  ELSE
    LET actual_price == calculate_slippage(conf, base[1], order.direction)
        commission   == calculate_commission(conf, actual_price, order.quantity,
                                             order.direction)
    IN  IF order.direction = "BUY" /\ actual_price * order.quantity > p.cash THEN <<>>
        ELSE IF order.direction = "SELL" /\ order.quantity > p.position THEN <<>>
        ELSE <<FillEvent(order, actual_price, commission,
                         Abs(actual_price - base[1]) * order.quantity, base[1], id)>>

\* execute_order without the position check of a SELL
execute_order_NoPositionCheck(conf, order, bar, p, id) ==
  LET base == BasePrice(order, bar) IN
  IF base = <<>> THEN <<>>
  ELSE
    LET actual_price == calculate_slippage(conf, base[1], order.direction)
        commission   == calculate_commission(conf, actual_price, order.quantity,
                                             order.direction)
    IN  IF order.direction = "BUY" /\ actual_price * order.quantity + commission > p.cash
        THEN <<>>
        ELSE <<FillEvent(order, actual_price, commission,
                         Abs(actual_price - base[1]) * order.quantity, base[1], id)>>

\* execute_order that fills as much of an unaffordable BUY as the cash covers
execute_order_FillsAffordable(conf, order, bar, p, id) ==
  LET base == BasePrice(order, bar) IN
  IF base = <<>> THEN <<>>
  ELSE
    LET actual_price == calculate_slippage(conf, base[1], order.direction)
        Cost(q)      == actual_price * q
                          + calculate_commission(conf, actual_price, q, order.direction)
        affordable   == { q \in 1..order.quantity : Cost(q) <= p.cash }
        quantity     == IF order.direction = "BUY"
                        THEN IF affordable = {} THEN 0
                             ELSE CHOOSE q \in affordable : \A r \in affordable : r <= q
                        ELSE order.quantity
    IN  IF quantity = 0 THEN <<>>
        ELSE IF order.direction = "SELL" /\ order.quantity > p.position THEN <<>>
        ELSE <<FillEvent([order EXCEPT !.quantity = quantity], actual_price,
                         calculate_commission(conf, actual_price, quantity, order.direction),
                         Abs(actual_price - base[1]) * quantity, base[1], id)>>

\* execute_order whose slippage cost is the slippage fraction of the base
\* amount, whatever the rounded fill price
execute_order_NominalSlippage(conf, order, bar, p, id) ==
  LET base == BasePrice(order, bar) IN
  IF base = <<>> THEN <<>>
  ELSE
    LET fill_price    == base[1]
        actual_price  == calculate_slippage(conf, fill_price, order.direction)
        commission    == calculate_commission(conf, actual_price, order.quantity,
                                              order.direction)
        cost          == actual_price * order.quantity + commission
        slippage_cost == (fill_price * order.quantity * conf.slipNum) \div SlipDen
    IN  IF order.direction = "BUY" /\ cost > p.cash THEN <<>>
        ELSE IF order.direction = "SELL" /\ order.quantity > p.position THEN <<>>
        ELSE <<FillEvent(order, actual_price, commission, slippage_cost, fill_price, id)>>

\* execute_order that skips the funds check of a BUY whose quantity x close
\* is within 95% of the cash
execute_order_TrustsBuffer(conf, order, bar, p, id) ==
  LET base == BasePrice(order, bar) IN
  IF base = <<>> THEN <<>>
  ELSE
    LET fill_price    == base[1]
        actual_price  == calculate_slippage(conf, fill_price, order.direction)
        commission    == calculate_commission(conf, actual_price, order.quantity,
                                              order.direction)
        cost          == actual_price * order.quantity + commission
        slippage_cost == Abs(actual_price - fill_price) * order.quantity
        buffered      == BufferDen * (bar.close * order.quantity) <= BufferNum * p.cash
    IN  IF order.direction = "BUY" /\ cost > p.cash /\ ~buffered THEN <<>>
        ELSE IF order.direction = "SELL" /\ order.quantity > p.position THEN <<>>
        ELSE <<FillEvent(order, actual_price, commission, slippage_cost, fill_price, id)>>

\* SimulatedBroker.execute_order, steps 2-5: Optional[FillEvent] as a
\* sequence of at most one fill.
execute_order(conf, order, bar, p, id) ==
  LET base == BasePrice(order, bar) IN
  IF base = <<>> THEN <<>>
  ELSE
    LET fill_price    == base[1]
        actual_price  == calculate_slippage(conf, fill_price, order.direction)
        commission    == calculate_commission(conf, actual_price, order.quantity,
                                              order.direction)
        cost          == actual_price * order.quantity + commission
        slippage_cost == Abs(actual_price - fill_price) * order.quantity
    IN  IF order.direction = "BUY" /\ cost > p.cash THEN <<>>
        ELSE IF order.direction = "SELL" /\ order.quantity > p.position THEN <<>>
        ELSE <<FillEvent(order, actual_price, commission, slippage_cost, fill_price, id)>>

\* _calculate_order_quantity that sizes a BUY with all of the cash
calculate_order_quantity_NoBuffer(conf, signal, bar, p) ==
  IF signal.direction = "SELL" THEN p.position
  ELSE IF bar.close <= 0 THEN 0
  ELSE LET quantity == Trunc(p.cash, bar.close)
           lots     == IF conf.market = "A" THEN (quantity \div LotA) * LotA
                       ELSE quantity
       IN  Max(lots, 0)

\* BacktestEngine._calculate_order_quantity
calculate_order_quantity(conf, signal, bar, p) ==
  IF signal.direction = "SELL" THEN p.position
  ELSE IF bar.close <= 0 THEN 0
  ELSE LET quantity == Trunc(p.cash * BufferNum, BufferDen * bar.close)
           lots     == IF conf.market = "A" THEN (quantity \div LotA) * LotA
                       ELSE quantity
       IN  Max(lots, 0)


\* --------------------------------------------------------------- strategy
SeqsUpTo(S, n) == UNION { [1..k -> S] : k \in 0..n }

\* buy()/sell() over a context whose current bar stays the first one
StrategySignal_StaleContext(conf, bar, p, t, id, parent) ==
  SignalEvent(data[1].datetime, conf.symbol, t.direction,
              IF t.direction = "SELL" /\ t.volume <= 0 THEN p.position ELSE t.volume,
              t.order_type, t.price, id, parent)

\* Strategy.buy / Strategy.sell called with the arguments t while event
\* `parent` is dispatched: the SignalEvent appended to the queue.  sell()
\* replaces a volume <= 0 by the current position.
StrategySignal(conf, bar, p, t, id, parent) ==
  SignalEvent(bar.datetime, conf.symbol, t.direction,
              IF t.direction = "SELL" /\ t.volume <= 0 THEN p.position ELSE t.volume,
              t.order_type, t.price, id, parent)

Emit(conf, bar, p, calls, first, parent) ==
  [k \in 1..Len(calls) |-> StrategySignal(conf, bar, p, calls[k], first + k - 1, parent)]

\* A deterministic strategy repeats its decision at the same point of a
\* replay: plan holds, per decision point, <<>> (not taken yet) or <<calls>>.
Decide(key, calls) ==
  IF key \in DOMAIN plan
  THEN /\ plan[key] \in {<<>>, <<calls>>}
       /\ plan' = [plan EXCEPT ![key] = <<calls>>]
  ELSE plan' = plan

\* ------------------------------------------------------------------ engine
Bar(row, i) == [datetime |-> i, low |-> row.low, close |-> row.close, high |-> row.high]

NewTrace ==
  [nextId |-> 1, dispatched |-> <<>>, fillCalls |-> 0, accepted |-> FALSE,
   fillsInBar |-> 0, calls |-> 0, tradeBase |-> <<>>, lastOrder |-> <<>>,
   hooks |-> <<>>, fee |-> <<>>]

\* history: one call of a strategy hook, on_bar with the bar's timestamp
HookCall(hook, datetime) == [hook |-> hook, datetime |-> datetime]

NewEngine == [pc |-> "init", idx |-> 0, event_queue |-> <<>>]

\* BacktestEngine.__init__ for every engine, over one bar table and configuration
Construct(conf, rows) ==
  /\ cfg = conf
  /\ data = [i \in 1..Len(rows) |-> Bar(rows[i], i)]
  /\ engine = [e \in Engines |-> NewEngine]
  /\ portfolio = [e \in Engines |-> NewPortfolio(conf)]
  /\ broker = [e \in Engines |-> [order_count |-> 0]]
  /\ trace = [e \in Engines |-> NewTrace]

Init ==
  /\ \E conf \in ConfigSet : \E rows \in SeqsUpTo(BarSet, MaxBars) : Construct(conf, rows)
  /\ plan = <<>>

\* the bar of the running loop iteration: self.data.iloc[idx]
CurrentBar(e) == data[engine[e].idx + 1]

Dispatching(e, type) ==
  /\ engine[e].pc = "drain"
  /\ engine[e].event_queue # <<>>
  /\ Head(engine[e].event_queue).type = type

Logged(e, event) ==
  Append(trace[e].dispatched, [id |-> event.id, type |-> event.type, parent |-> event.parent])

\* run(): self.strategy.init()
StrategyInit(e) ==
  /\ engine[e].pc = "init"
  /\ engine' = [engine EXCEPT ![e].pc = "bar"]
  /\ trace' = [trace EXCEPT ![e].hooks = Append(@, HookCall("init", 0))]
  /\ UNCHANGED <<cfg, data, portfolio, broker, plan>>

\* run(): the head of one loop iteration, the MarketEvent is appended
PushMarket(e) ==
  /\ engine[e].pc = "bar"
  /\ engine[e].idx < Len(data)
  /\ engine' = [engine EXCEPT
        ![e].pc = "drain",
        ![e].event_queue = Append(@, MarketEvent(CurrentBar(e).datetime, 1))]
  /\ trace' = [trace EXCEPT ![e].nextId = 2, ![e].dispatched = <<>>,
                            ![e].fillsInBar = 0]
  /\ UNCHANGED <<cfg, data, portfolio, broker, plan>>

\* _handle_market that dispatches the MarketEvent again after the signals on_bar
\* emitted
HandleMarket_Requeue(e, menu) ==
  /\ Dispatching(e, "MARKET")
  /\ LET event == Head(engine[e].event_queue) IN
     \E calls \in SeqsUpTo(menu, MaxCalls - trace[e].calls) :
       /\ Decide(<<engine[e].idx, 0>>, calls)
       /\ engine' = [engine EXCEPT ![e].event_queue =
             Tail(@) \o Emit(cfg, CurrentBar(e), portfolio[e], calls,
                             trace[e].nextId, event.id)
                     \o (IF calls = <<>> THEN <<>> ELSE <<event>>)]
       /\ trace' = [trace EXCEPT ![e].nextId = @ + Len(calls),
                                 ![e].calls = @ + Len(calls),
                                 ![e].dispatched = Logged(e, event),
                                 ![e].hooks =
                                    Append(@, HookCall("on_bar", CurrentBar(e).datetime))]
  /\ UNCHANGED <<cfg, data, portfolio, broker>>

\* _handle_market: strategy.on_bar(bar), which calls buy()/sell()
HandleMarket(e, menu) ==
  /\ Dispatching(e, "MARKET")
  /\ LET event == Head(engine[e].event_queue) IN
     \E calls \in SeqsUpTo(menu, MaxCalls - trace[e].calls) :
       /\ Decide(<<engine[e].idx, 0>>, calls)
       /\ engine' = [engine EXCEPT ![e].event_queue =
             Tail(@) \o Emit(cfg, CurrentBar(e), portfolio[e], calls,
                             trace[e].nextId, event.id)]
       /\ trace' = [trace EXCEPT ![e].nextId = @ + Len(calls),
                                 ![e].calls = @ + Len(calls),
                                 ![e].dispatched = Logged(e, event),
                                 ![e].hooks =
                                    Append(@, HookCall("on_bar", CurrentBar(e).datetime))]
  /\ UNCHANGED <<cfg, data, portfolio, broker>>

\* _handle_signal that puts the OrderEvent at the front of the queue
HandleSignal_AppendLeft(e) ==
  /\ Dispatching(e, "SIGNAL")
  /\ LET signal   == Head(engine[e].event_queue)
         sized    == IF signal.quantity <= 0
                     THEN calculate_order_quantity(cfg, signal, CurrentBar(e), portfolio[e])
                     ELSE signal.quantity
     IN  /\ engine' = [engine EXCEPT ![e].event_queue =
               IF sized <= 0 THEN Tail(@)
               ELSE <<OrderEvent(signal, sized, trace[e].nextId)>> \o Tail(@)]
         /\ trace' = [trace EXCEPT ![e].nextId = IF sized <= 0 THEN @ ELSE @ + 1,
                                   ![e].dispatched = Logged(e, signal)]
  /\ UNCHANGED <<cfg, data, portfolio, broker, plan>>

\* _handle_signal that drops a signal only when its computed quantity is negative
HandleSignal_KeepsZero(e) ==
  /\ Dispatching(e, "SIGNAL")
  /\ LET signal   == Head(engine[e].event_queue)
         sized    == IF signal.quantity <= 0
                     THEN calculate_order_quantity(cfg, signal, CurrentBar(e), portfolio[e])
                     ELSE signal.quantity
     IN  /\ engine' = [engine EXCEPT ![e].event_queue =
               IF sized < 0 THEN Tail(@)
               ELSE Append(Tail(@), OrderEvent(signal, sized, trace[e].nextId))]
         /\ trace' = [trace EXCEPT ![e].nextId = IF sized < 0 THEN @ ELSE @ + 1,
                                   ![e].dispatched = Logged(e, signal)]
  /\ UNCHANGED <<cfg, data, portfolio, broker, plan>>

\* _handle_signal that sizes and drops only a signal of quantity 0: a
\* negative quantity goes into the order as it is
HandleSignal_OnlyZeroIsUnsized(e) ==
  /\ Dispatching(e, "SIGNAL")
  /\ LET signal   == Head(engine[e].event_queue)
         sized    == IF signal.quantity = 0
                     THEN calculate_order_quantity(cfg, signal, CurrentBar(e), portfolio[e])
                     ELSE signal.quantity
     IN  /\ engine' = [engine EXCEPT ![e].event_queue =
               IF sized = 0 THEN Tail(@)
               ELSE Append(Tail(@), OrderEvent(signal, sized, trace[e].nextId))]
         /\ trace' = [trace EXCEPT ![e].nextId = IF sized = 0 THEN @ ELSE @ + 1,
                                   ![e].dispatched = Logged(e, signal)]
  /\ UNCHANGED <<cfg, data, portfolio, broker, plan>>

\* _handle_signal: size the signal, append the OrderEvent
HandleSignal(e) ==
  /\ Dispatching(e, "SIGNAL")
  /\ LET signal   == Head(engine[e].event_queue)
         sized    == IF signal.quantity <= 0
                     THEN calculate_order_quantity(cfg, signal, CurrentBar(e), portfolio[e])
                     ELSE signal.quantity
     IN  /\ engine' = [engine EXCEPT ![e].event_queue =
               IF sized <= 0 THEN Tail(@)
               ELSE Append(Tail(@), OrderEvent(signal, sized, trace[e].nextId))]
         /\ trace' = [trace EXCEPT ![e].nextId = IF sized <= 0 THEN @ ELSE @ + 1,
                                   ![e].dispatched = Logged(e, signal)]
  /\ UNCHANGED <<cfg, data, portfolio, broker, plan>>

\* _handle_order over a broker that raises for an order kind it does not know:
\* the exception leaves run()
HandleOrder_RaiseOnUnknownKind(e) ==
  /\ Dispatching(e, "ORDER")
  /\ LET order == Head(engine[e].event_queue)
         fill  == execute_order(cfg, order, CurrentBar(e), portfolio[e], trace[e].nextId)
     IN  /\ engine' = [engine EXCEPT
               ![e].event_queue = Tail(@) \o fill,
               ![e].pc = IF order.order_type \in {"MARKET", "LIMIT"} THEN @ ELSE "raised"]
         /\ trace' = [trace EXCEPT
               ![e].nextId = @ + Len(fill),
               ![e].dispatched = Logged(e, order),
               ![e].lastOrder = <<[order |-> order, cash |-> portfolio[e].cash,
                                   position |-> portfolio[e].position,
                                   filled |-> fill # <<>>]>>]
  /\ broker' = [broker EXCEPT ![e].order_count = @ + 1]
  /\ UNCHANGED <<cfg, data, portfolio, plan>>

\* _handle_order that queues an order the broker rejected once more
HandleOrder_RetriesOnce(e) ==
  /\ Dispatching(e, "ORDER")
  /\ LET order == Head(engine[e].event_queue)
         fill  == execute_order(cfg, order, CurrentBar(e), portfolio[e], trace[e].nextId)
         seen  == \E i \in 1..Len(trace[e].dispatched) :
                    trace[e].dispatched[i].id = order.id
         again == IF fill = <<>> /\ ~seen THEN <<order>> ELSE <<>>
     IN  /\ engine' = [engine EXCEPT ![e].event_queue = Tail(@) \o fill \o again]
         /\ trace' = [trace EXCEPT
               ![e].nextId = @ + Len(fill),
               ![e].dispatched = Logged(e, order),
               ![e].lastOrder = <<[order |-> order, cash |-> portfolio[e].cash,
                                   position |-> portfolio[e].position,
                                   filled |-> fill # <<>>]>>]
  /\ broker' = [broker EXCEPT ![e].order_count = @ + 1]
  /\ UNCHANGED <<cfg, data, portfolio, plan>>

\* _handle_order over one SimulatedBroker shared by the engines: every
\* engine's broker has counted the order
HandleOrder_SharedBroker(e) ==
  /\ Dispatching(e, "ORDER")
  /\ LET order == Head(engine[e].event_queue)
         fill  == execute_order(cfg, order, CurrentBar(e), portfolio[e], trace[e].nextId)
     IN  /\ engine' = [engine EXCEPT ![e].event_queue = Tail(@) \o fill]
         /\ trace' = [trace EXCEPT
               ![e].nextId = @ + Len(fill),
               ![e].dispatched = Logged(e, order),
               ![e].lastOrder = <<[order |-> order, cash |-> portfolio[e].cash,
                                   position |-> portfolio[e].position,
                                   filled |-> fill # <<>>]>>]
  /\ broker' = [x \in Engines |-> [broker[x] EXCEPT !.order_count = @ + 1]]
  /\ UNCHANGED <<cfg, data, portfolio, plan>>

\* _handle_order: broker.execute_order, append the FillEvent if there is one;
\* what execute_order raises leaves run()
HandleOrder(e) ==
  /\ Dispatching(e, "ORDER")
  /\ LET order == Head(engine[e].event_queue)
         fill  == IF LimitPriceMissing(order) THEN <<>>
                  ELSE execute_order(cfg, order, CurrentBar(e), portfolio[e],
                                     trace[e].nextId)
     IN  /\ engine' = [engine EXCEPT
               ![e].event_queue = Tail(@) \o fill,
               ![e].pc = IF LimitPriceMissing(order) THEN "raised" ELSE @]
         /\ trace' = [trace EXCEPT
               ![e].nextId = @ + Len(fill),
               ![e].dispatched = Logged(e, order),
               ![e].lastOrder = <<[order |-> order, cash |-> portfolio[e].cash,
                                   position |-> portfolio[e].position,
                                   filled |-> fill # <<>>]>>]
  /\ broker' = [broker EXCEPT ![e].order_count = @ + 1]
  /\ UNCHANGED <<cfg, data, portfolio, plan>>

\* _handle_fill over one Portfolio shared by the engines: the fill reaches
\* every engine's ledger
HandleFill_SharedPortfolio(e, menu) ==
  /\ Dispatching(e, "FILL")
  /\ LET fill  == Head(engine[e].event_queue)
         done  == execute_fill(portfolio[e], fill)
         n     == trace[e].fillsInBar + 1
     IN  /\ portfolio' = [x \in Engines |-> execute_fill(portfolio[x], fill)[2]]
         /\ \E calls \in SeqsUpTo(menu, MaxCalls - trace[e].calls) :
              /\ Decide(<<engine[e].idx, n>>, calls)
              /\ engine' = [engine EXCEPT ![e].event_queue =
                    Tail(@) \o Emit(cfg, CurrentBar(e), done[2], calls,
                                    trace[e].nextId, fill.id)]
              /\ trace' = [trace EXCEPT
                    ![e].nextId = @ + Len(calls),
                    ![e].dispatched = Logged(e, fill),
                    ![e].fillCalls = @ + 1,
                    ![e].accepted = done[1],
                    ![e].fillsInBar = n,
                    ![e].calls = @ + Len(calls),
                    ![e].tradeBase = IF done[1] THEN Append(@, fill.base) ELSE @]
  /\ UNCHANGED <<cfg, data, broker>>

\* _handle_fill: portfolio.execute_fill, then strategy.on_order_filled, which
\* may call buy()/sell() again
HandleFill(e, menu) ==
  /\ Dispatching(e, "FILL")
  /\ LET fill  == Head(engine[e].event_queue)
         done  == execute_fill(portfolio[e], fill)
         n     == trace[e].fillsInBar + 1
     IN  /\ portfolio' = [portfolio EXCEPT ![e] = done[2]]
         /\ \E calls \in SeqsUpTo(menu, MaxCalls - trace[e].calls) :
              /\ Decide(<<engine[e].idx, n>>, calls)
              /\ engine' = [engine EXCEPT ![e].event_queue =
                    Tail(@) \o Emit(cfg, CurrentBar(e), done[2], calls,
                                    trace[e].nextId, fill.id)]
              /\ trace' = [trace EXCEPT
                    ![e].nextId = @ + Len(calls),
                    ![e].dispatched = Logged(e, fill),
                    ![e].fillCalls = @ + 1,
                    ![e].accepted = done[1],
                    ![e].fillsInBar = n,
                    ![e].calls = @ + Len(calls),
                    ![e].tradeBase = IF done[1] THEN Append(@, fill.base) ELSE @]
  /\ UNCHANGED <<cfg, data, broker>>

\* the snapshot taken after one pass of the dispatch loop, drained or not
UpdateMarketValue_AfterOneEvent(e) ==
  /\ engine[e].pc = "drain"
  /\ portfolio' = [portfolio EXCEPT ![e] =
        update_market_value(@, CurrentBar(e).datetime, CurrentBar(e).close)]
  /\ engine' = [engine EXCEPT ![e].pc = "bar", ![e].idx = @ + 1]
  /\ UNCHANGED <<cfg, data, broker, plan, trace>>

\* run() that catches what a strategy hook raised during a bar and goes on to
\* the bar's snapshot
UpdateMarketValue_CatchesHook(e) ==
  /\ \/ engine[e].pc = "drain" /\ engine[e].event_queue = <<>>
     \/ engine[e].pc = "raised" /\ engine[e].idx < Len(data)
  /\ portfolio' = [portfolio EXCEPT ![e] =
        update_market_value(@, CurrentBar(e).datetime, CurrentBar(e).close)]
  /\ engine' = [engine EXCEPT ![e].pc = "bar", ![e].idx = @ + 1]
  /\ UNCHANGED <<cfg, data, broker, plan, trace>>

\* run(): the queue is drained, portfolio.update_market_value, next iteration
UpdateMarketValue(e) ==
  /\ engine[e].pc = "drain"
  /\ engine[e].event_queue = <<>>
  /\ portfolio' = [portfolio EXCEPT ![e] =
        update_market_value(@, CurrentBar(e).datetime, CurrentBar(e).close)]
  /\ engine' = [engine EXCEPT ![e].pc = "bar", ![e].idx = @ + 1]
  /\ UNCHANGED <<cfg, data, broker, plan, trace>>

\* run(): the loop is over, the BacktestResult is returned
Finish(e) ==
  /\ engine[e].pc = "bar"
  /\ engine[e].idx >= Len(data)
  /\ engine' = [engine EXCEPT ![e].pc = "done"]
  /\ UNCHANGED <<cfg, data, portfolio, broker, plan, trace>>

\* run() of engine e, its strategy calling buy()/sell() with arguments from menu
Run(e, menu) ==
  \/ StrategyInit(e)
  \/ PushMarket(e)
  \/ HandleMarket(e, menu)
  \/ HandleSignal(e)
  \/ HandleOrder(e)
  \/ HandleFill(e, menu)
  \/ UpdateMarketValue(e)
  \/ Finish(e)

\* one engine replaying one bar table
Next == Run(1, SignalSet)

Spec == Init /\ [][Next]_vars


\* two engines, each with its own portfolio, broker, queue and strategy
\* instance, replaying the same bar table with the same deterministic strategy
\* (one that sizes its orders by the default policy)
PlanKeys == (0..(MaxBars - 1)) \X (0..MaxCalls)

TwinBarSet == { row \in BarSet : row.close > 0 }
TwinSignalSet == { t \in SignalSet : t.volume = 0 }

InitTwin ==
  /\ \E conf \in ConfigSet : \E rows \in SeqsUpTo(TwinBarSet, MaxBars) : Construct(conf, rows)
  /\ plan = [k \in PlanKeys |-> <<>>]

\* the engines take turns between bars: run() is synchronous, a bar's dispatch
\* loop is not interrupted
Turn(e) == \A x \in Engines \ {e} : engine[x].pc # "drain"

NextTwin ==
  \E e \in Engines :
    \/ Turn(e) /\ StrategyInit(e)
    \/ Turn(e) /\ PushMarket(e)
    \/ Turn(e) /\ HandleMarket(e, TwinSignalSet)
    \/ Turn(e) /\ HandleSignal(e)
    \/ Turn(e) /\ HandleOrder(e)
    \/ Turn(e) /\ HandleFill(e, TwinSignalSet)
    \/ Turn(e) /\ UpdateMarketValue(e)
    \/ Turn(e) /\ Finish(e)

SpecTwin == InitTwin /\ [][NextTwin]_vars


\* one engine whose strategy leaves the size of every SELL to the default
\* policy: each sell() call passes volume 0
SizingSignalSet == { t \in SignalSet : t.direction = "SELL" => t.volume = 0 }

NextSizing == Run(1, SizingSignalSet)

SpecSizing == Init /\ [][NextSizing]_vars


\* one engine of lot size 1 under the buy-then-sell strategy: on_bar calls
\* buy() with the default size on the first bar and sell() for the whole
\* position on the second, and no hook calls anything else
EndToEndConfigSet ==
  { [market |-> "US", capital |-> 1000000, rateNum |-> 3, slipNum |-> slip,
     symbol |-> "UNKNOWN"] : slip \in {0, 1} }

\* the rows of BarSet and a close of 20.0, above the capital
EndToEndBarSet == BarSet \cup { [low |-> 1500000, close |-> 2000000, high |-> 2500000] }

EndToEndPlan ==
  [key \in PlanKeys |->
     IF key = <<0, 0>>
     THEN << <<[direction |-> "BUY", volume |-> 0, order_type |-> "MARKET",
                price |-> NoPrice]>> >>
     ELSE IF key = <<1, 0>>
     THEN << <<[direction |-> "SELL", volume |-> 0, order_type |-> "MARKET",
                price |-> NoPrice]>> >>
     ELSE << <<>> >>]

InitEndToEnd ==
  /\ \E conf \in EndToEndConfigSet : \E rows \in SeqsUpTo(EndToEndBarSet, MaxBars) :
       Construct(conf, rows)
  /\ plan = EndToEndPlan

NextEndToEnd == Run(1, TwinSignalSet)

SpecEndToEnd == InitEndToEnd /\ [][NextEndToEnd]_vars


\* one engine of capital 0.01 and proportional commission over bars of very
\* low prices, a close of 0.00004 (less than half a price tick) and a close
\* of 0.00012, whose strategy calls buy() and sell() with volume 0 and with a
\* negative volume
PennyConfigSet ==
  { [market |-> "US", capital |-> 1000, rateNum |-> 3, slipNum |-> slip,
     symbol |-> "UNKNOWN"] : slip \in {0, 1} }

PennyBarSet ==
  { [low |-> 2, close |-> 4,  high |-> 6],
    [low |-> 8, close |-> 12, high |-> 16] }

PennySignalSet ==
  { [direction |-> d, volume |-> v, order_type |-> "MARKET", price |-> NoPrice] :
      d \in {"BUY", "SELL"}, v \in {-1, 0} }

InitPenny ==
  /\ \E conf \in PennyConfigSet : \E rows \in SeqsUpTo(PennyBarSet, MaxBars) :
       Construct(conf, rows)
  /\ plan = <<>>

NextPenny == Run(1, PennySignalSet)

SpecPenny == InitPenny /\ [][NextPenny]_vars


\* Portfolio.calculate_commission called on its own: trace[e].fee keeps the
\* last call, its arguments and what it returned
CalculateCommission(e, prices, quantities) ==
  /\ \E price \in prices : \E quantity \in quantities : \E direction \in {"BUY", "SELL"} :
       trace' = [trace EXCEPT ![e].fee =
          <<[price |-> price, quantity |-> quantity, direction |-> direction,
             commission |-> calculate_commission(cfg, price, quantity, direction)]>>]
  /\ UNCHANGED <<cfg, data, engine, portfolio, broker, plan>>

\* prices from 0 to 12.3456 and quantities from 1 to 1500: trade amounts from
\* 0 to 18518.40, on both sides of the amount whose proportional commission
\* is the minimum commission (16666.67)
FeePriceSet == {0, 5000, 5004, 200000, 200200, 1234560}
FeeQuantitySet == {1, 2, 100, 1000, 1500}

InitFee ==
  /\ \E conf \in ConfigSet : Construct(conf, <<>>)
  /\ plan = <<>>

NextFee == CalculateCommission(1, FeePriceSet, FeeQuantitySet)

SpecFee == InitFee /\ [][NextFee]_vars


\* A strategy hook that raises: run() has no try/except, the exception leaves
\* run() and no BacktestResult is built.  The hook may have called
\* buy()/sell() before it raised.
StrategyInitRaises(e) ==
  /\ engine[e].pc = "init"
  /\ engine' = [engine EXCEPT ![e].pc = "raised"]
  /\ trace' = [trace EXCEPT ![e].hooks = Append(@, HookCall("init", 0))]
  /\ UNCHANGED <<cfg, data, portfolio, broker, plan>>

\* _handle_market: on_bar raises
HandleMarketRaises(e, menu) ==
  /\ Dispatching(e, "MARKET")
  /\ LET event == Head(engine[e].event_queue) IN
     \E calls \in SeqsUpTo(menu, MaxCalls - trace[e].calls) :
       /\ Decide(<<engine[e].idx, 0>>, calls)
       /\ engine' = [engine EXCEPT
             ![e].pc = "raised",
             ![e].event_queue =
                Tail(@) \o Emit(cfg, CurrentBar(e), portfolio[e], calls,
                                trace[e].nextId, event.id)]
       /\ trace' = [trace EXCEPT ![e].nextId = @ + Len(calls),
                                 ![e].calls = @ + Len(calls),
                                 ![e].dispatched = Logged(e, event),
                                 ![e].hooks =
                                    Append(@, HookCall("on_bar", CurrentBar(e).datetime))]
  /\ UNCHANGED <<cfg, data, portfolio, broker>>

\* _handle_fill: portfolio.execute_fill has run, then on_order_filled raises
HandleFillRaises(e, menu) ==
  /\ Dispatching(e, "FILL")
  /\ LET fill  == Head(engine[e].event_queue)
         done  == execute_fill(portfolio[e], fill)
         n     == trace[e].fillsInBar + 1
     IN  /\ portfolio' = [portfolio EXCEPT ![e] = done[2]]
         /\ \E calls \in SeqsUpTo(menu, MaxCalls - trace[e].calls) :
              /\ Decide(<<engine[e].idx, n>>, calls)
              /\ engine' = [engine EXCEPT
                    ![e].pc = "raised",
                    ![e].event_queue =
                       Tail(@) \o Emit(cfg, CurrentBar(e), done[2], calls,
                                       trace[e].nextId, fill.id)]
              /\ trace' = [trace EXCEPT
                    ![e].nextId = @ + Len(calls),
                    ![e].dispatched = Logged(e, fill),
                    ![e].fillCalls = @ + 1,
                    ![e].accepted = done[1],
                    ![e].fillsInBar = n,
                    ![e].calls = @ + Len(calls),
                    ![e].tradeBase = IF done[1] THEN Append(@, fill.base) ELSE @]
  /\ UNCHANGED <<cfg, data, broker>>

\* one engine whose strategy sizes by the default policy and may raise in any hook
InitRaise ==
  /\ \E conf \in ConfigSet : \E rows \in SeqsUpTo(TwinBarSet, MaxBars) : Construct(conf, rows)
  /\ plan = <<>>

NextRaise ==
  \/ Run(1, TwinSignalSet)
  \/ StrategyInitRaises(1)
  \/ HandleMarketRaises(1, TwinSignalSet)
  \/ HandleFillRaises(1, TwinSignalSet)

SpecRaise == InitRaise /\ [][NextRaise]_vars


\* one engine whose strategy places LIMIT orders, and orders of a kind the
\* broker does not know, against bars with a positive close
LimitBarSet == { row \in BarSet : row.close > 0 }

\* limit prices 0.03 (below both lows), 1.8 (inside the range of the 2.0 bar,
\* above the range of the 0.05 bar) and 2.2 (between close and high of the 2.0 bar)
LimitSignalSet ==
  { [direction |-> "BUY",  volume |-> 1, order_type |-> "LIMIT", price |-> <<3000>>],
    [direction |-> "BUY",  volume |-> 2, order_type |-> "LIMIT", price |-> <<180000>>],
    [direction |-> "SELL", volume |-> 1, order_type |-> "LIMIT", price |-> <<180000>>],
    [direction |-> "SELL", volume |-> 1, order_type |-> "LIMIT", price |-> <<220000>>],
    [direction |-> "BUY",  volume |-> 1, order_type |-> "STOP",  price |-> <<180000>>] }

InitLimit ==
  /\ \E conf \in ConfigSet : \E rows \in SeqsUpTo(LimitBarSet, MaxBars) : Construct(conf, rows)
  /\ plan = <<>>

NextLimit == Run(1, LimitSignalSet)

SpecLimit == InitLimit /\ [][NextLimit]_vars


\* one engine whose strategy also places LIMIT orders without giving a price:
\* buy(volume=2, order_type="LIMIT") and sell(order_type="LIMIT")
NoPriceSignalSet ==
  { [direction |-> "BUY",  volume |-> 2, order_type |-> "MARKET", price |-> NoPrice],
    [direction |-> "BUY",  volume |-> 2, order_type |-> "LIMIT",  price |-> NoPrice],
    [direction |-> "SELL", volume |-> 0, order_type |-> "LIMIT",  price |-> NoPrice],
    [direction |-> "SELL", volume |-> 0, order_type |-> "LIMIT",  price |-> <<180000>>] }

NextNoPrice == Run(1, NoPriceSignalSet)

SpecNoPrice == InitLimit /\ [][NextNoPrice]_vars


\* one engine given any table and any capital: BacktestEngine.__init__ stores
\* its arguments as they are.  The table is handed over as the caller built it
\* or as DataLoader.validate returned it; cfg.table keeps what the caller built.
RawCapitalSet == {-1000000, 0, 1000000}

\* DataLoader.validate on a table that has the required columns and a
\* DatetimeIndex: the rows come back sorted by timestamp (sort_index leaves the
\* order of rows of equal timestamp open), none is rejected
validate(df) ==
  { t \in { [i \in 1..Len(df) |-> df[p[i]]] : p \in Permutations(1..Len(df)) } :
      \A i \in 1..(Len(df) - 1) : t[i].datetime <= t[i + 1].datetime }

InitRaw ==
  /\ \E conf \in ConfigSet : \E capital \in RawCapitalSet :
     \E rows \in SeqsUpTo(TwinBarSet, MaxBars) :
     \E stamps \in [1..Len(rows) -> 1..MaxBars] :
       LET df == [i \in 1..Len(rows) |-> Bar(rows[i], stamps[i])] IN
       /\ cfg = [market |-> conf.market, capital |-> capital, rateNum |-> conf.rateNum,
                 slipNum |-> conf.slipNum, symbol |-> conf.symbol, table |-> df]
       /\ data \in {df} \cup validate(df)
       /\ portfolio = [e \in Engines |-> NewPortfolio(cfg)]
  /\ engine = [e \in Engines |-> NewEngine]
  /\ broker = [e \in Engines |-> [order_count |-> 0]]
  /\ trace = [e \in Engines |-> NewTrace]
  /\ plan = <<>>

NextRaw == Run(1, TwinSignalSet)

SpecRaw == InitRaw /\ [][NextRaw]_vars

\* ================================================================== claims
Queue(e) == engine[e].event_queue
Cash(e) == portfolio[e].cash
Position(e) == portfolio[e].position
Trades(e) == portfolio[e].trades
Equity(e) == portfolio[e].equity_curve

\* the step is Portfolio.execute_fill applied to the FillEvent at the head of the queue
FillStep(e) == Dispatching(e, "FILL") /\ trace'[e].fillCalls = trace[e].fillCalls + 1
\* the step is SimulatedBroker.execute_order applied to the OrderEvent at the head
OrderStep(e) == Dispatching(e, "ORDER") /\ broker'[e].order_count = broker[e].order_count + 1

\* C1: after every fill that execute_fill accepts, cash >= 0 and position >= 0.
C1_NonNegativeAfterAcceptedFill ==
  \A e \in Engines :
    (trace[e].fillCalls > 0 /\ trace[e].accepted) => (Cash(e) >= 0 /\ Position(e) >= 0)

\* C2: a fill that execute_fill rejects (BUY: cost + commission > cash, SELL:
\* quantity > position) returns False and leaves cash, position,
\* position_avg_cost, the trade history and the equity curve as they were.
C2_Rejects(p, fill) ==
  \/ fill.direction = "BUY" /\ fill.fill_price * fill.quantity + fill.commission > p.cash
  \/ fill.direction = "SELL" /\ fill.quantity > p.position

C2_RejectedFillIsAtomic ==
  [][\A e \in Engines :
       (FillStep(e) /\ C2_Rejects(portfolio[e], Head(Queue(e))))
         => (~trace'[e].accepted /\ portfolio'[e] = portfolio[e])]_vars

C2_Witness ==
  \E e \in Engines : trace[e].fillCalls > 0 /\ ~trace[e].accepted /\ Len(Trades(e)) > 0

\* C3: a BUY order whose actual_price * quantity + commission exceeds the cash
\* gets no fill from execute_order and the portfolio is unchanged; an order
\* that costs exactly the cash is not such an order.
C3_OrderCost(order, bar) ==
  LET actual == calculate_slippage(cfg, BasePrice(order, bar)[1], order.direction)
  IN  actual * order.quantity
        + calculate_commission(cfg, actual, order.quantity, order.direction)

C3_UnaffordableBuyGetsNoFill ==
  [][\A e \in Engines :
       LET order == Head(Queue(e)) IN
       (/\ OrderStep(e)
        /\ order.direction = "BUY"
        /\ BasePrice(order, CurrentBar(e)) # <<>>
        /\ C3_OrderCost(order, CurrentBar(e)) > Cash(e))
         => (Queue(e)' = Tail(Queue(e)) /\ portfolio'[e] = portfolio[e])]_vars

C3_Witness ==
  \E e \in Engines :
    /\ trace[e].lastOrder # <<>>
    /\ LET last == trace[e].lastOrder[1] IN
       /\ last.order.direction = "BUY"
       /\ ~last.filled
       /\ C3_OrderCost(last.order, CurrentBar(e)) > last.cash
       \* the price alone was affordable: the commission decided
       /\ C3_OrderCost(last.order, CurrentBar(e)) - last.cash <= MinCommission
    /\ engine[e].pc = "drain"

\* C4: a SELL order whose quantity exceeds the position gets no fill from
\* execute_order, no trade results and the position is not reduced.
C4_OversizedSellGetsNoFill ==
  [][\A e \in Engines :
       LET order == Head(Queue(e)) IN
       (OrderStep(e) /\ order.direction = "SELL" /\ order.quantity > Position(e))
         => (Queue(e)' = Tail(Queue(e)) /\ portfolio'[e] = portfolio[e])]_vars

C4_Witness ==
  \E e \in Engines :
    /\ trace[e].lastOrder # <<>>
    /\ LET last == trace[e].lastOrder[1] IN
       /\ last.order.direction = "SELL"
       /\ last.order.quantity > last.position
       /\ ~last.filled
    /\ engine[e].pc = "drain"


\* C5: the queue is empty whenever a bar's MarketEvent is enqueued and whenever
\* a bar's snapshot is taken, and every queued event belongs to the bar being
\* processed: nothing created in bar N is dispatched against another bar.
C5_QueueOfCurrentBar ==
  \A e \in Engines :
    IF engine[e].pc = "drain"
    THEN \A k \in 1..Len(Queue(e)) : Queue(e)[k].datetime = CurrentBar(e).datetime
    ELSE Queue(e) = <<>>

C5_EmptyAtBarEdges ==
  \A e \in Engines :
    /\ (engine[e].pc = "bar" /\ engine'[e].pc = "drain")
          => (Queue(e) = <<>> /\ Len(Queue(e)') = 1 /\ Queue(e)'[1].type = "MARKET")
    /\ Len(Equity(e)') > Len(Equity(e)) => (Queue(e) = <<>> /\ Queue(e)' = <<>>)

C5_BarCascadeCompletes == [](C5_QueueOfCurrentBar) /\ [][C5_EmptyAtBarEdges]_vars

C5_Witness ==
  \E e \in Engines :
    /\ engine[e].pc = "drain"
    /\ engine[e].idx >= 1
    /\ Len(Queue(e)) = 1 /\ Queue(e)[1].type = "MARKET"
    /\ Len(Trades(e)) >= 1
    /\ Len(Equity(e)) = engine[e].idx

\* C6: within a bar events are dispatched first-in first-out, the MarketEvent
\* first, every order after the signal it was created from and every fill
\* after the order it was created from.
C6_Before(d, i, type) == \E j \in 1..(i - 1) : d[j].id = d[i].parent /\ d[j].type \in type

C6_HappensBefore ==
  \A e \in Engines :
    LET d == trace[e].dispatched IN
    \A i \in 1..Len(d) :
      /\ (d[i].type = "MARKET") <=> (i = 1)
      /\ i > 1 => d[i - 1].id < d[i].id
      /\ d[i].type = "SIGNAL" => C6_Before(d, i, {"MARKET", "FILL"})
      /\ d[i].type = "ORDER" => C6_Before(d, i, {"SIGNAL"})
      /\ d[i].type = "FILL" => C6_Before(d, i, {"ORDER"})

C6_Witness ==
  \E e \in Engines :
    LET d == trace[e].dispatched IN
    /\ Len(d) >= 7
    /\ d[2].type = "SIGNAL" /\ d[3].type = "SIGNAL"
    /\ d[Len(d)].type = "FILL"

\* C7: when a run has completed, the equity curve has one snapshot per bar,
\* the i-th carrying the i-th bar's timestamp.
C7_OneSnapshotPerBar ==
  \A e \in Engines :
    engine[e].pc = "done" =>
      /\ Len(Equity(e)) = Len(data)
      /\ \A i \in 1..Len(data) : Equity(e)[i].datetime = data[i].datetime

C7_Witness ==
  \E e \in Engines :
    /\ engine[e].pc = "done"
    /\ Len(data) >= 2
    /\ Len(Trades(e)) >= 1
    /\ trace[e].fillCalls > Len(Trades(e))

\* C8: at every equity snapshot, position = 0 if and only if position_avg_cost = 0.
C8_FlatIffNoCost ==
  \A e \in Engines :
    (engine[e].pc = "bar" /\ Len(Equity(e)) > 0) =>
      ((Position(e) = 0) <=> (portfolio[e].position_avg_cost[1] = 0))

\* C8 amended: at every equity snapshot position = 0 implies
\* position_avg_cost = 0, and the converse holds when no BUY was filled at price 0.
C8_PaidForAll(e) ==
  \A i \in 1..Len(Trades(e)) : Trades(e)[i].direction = "BUY" => Trades(e)[i].price > 0

C8_FlatImpliesNoCost ==
  \A e \in Engines :
    (engine[e].pc = "bar" /\ Len(Equity(e)) > 0) =>
      /\ Position(e) = 0 => portfolio[e].position_avg_cost[1] = 0
      /\ (C8_PaidForAll(e) /\ portfolio[e].position_avg_cost[1] = 0) => Position(e) = 0

C8_Witness ==
  \E e \in Engines :
    /\ engine[e].pc = "bar" /\ Len(Equity(e)) > 1
    /\ Position(e) = 0
    /\ Equity(e)[1].position > 0
    /\ trace[e].fillCalls > Len(Trades(e))
    /\ C8_PaidForAll(e)

\* C9: cash = initial_capital - sum over BUY trades of (price * quantity +
\* commission) + sum over SELL trades of (price * quantity - commission).
RECURSIVE C9_NetPaid(_)
C9_NetPaid(trades) ==
  IF trades = <<>> THEN 0
  ELSE LET t == trades[Len(trades)]
           rest == C9_NetPaid(SubSeq(trades, 1, Len(trades) - 1))
       IN  IF t.direction = "BUY"
           THEN rest + (t.price * t.quantity + t.commission)
           ELSE rest - (t.price * t.quantity - t.commission)

\* sum of commission + slippage cost over the trades, and the net amount paid
\* with every trade taken at its pre-slippage base price
RECURSIVE C9_Costs(_)
C9_Costs(trades) ==
  IF trades = <<>> THEN 0
  ELSE C9_Costs(Tail(trades)) + trades[1].commission + trades[1].slippage

RECURSIVE C9_NetPaidAtBase(_, _)
C9_NetPaidAtBase(trades, bases) ==
  IF trades = <<>> THEN 0
  ELSE LET rest == C9_NetPaidAtBase(Tail(trades), Tail(bases))
       IN  IF trades[1].direction = "BUY"
           THEN rest + bases[1] * trades[1].quantity
           ELSE rest - bases[1] * trades[1].quantity

C9_CashForm(e) == Cash(e) = cfg.capital - C9_NetPaid(Trades(e))
C9_CostForm(e) ==
  C9_Costs(Trades(e)) =
    cfg.capital - C9_NetPaidAtBase(Trades(e), trace[e].tradeBase) - Cash(e)

\* C9 as claimed: both forms hold after any sequence of fills.
C9_BothForms == \A e \in Engines : C9_CashForm(e) /\ C9_CostForm(e)

\* no recorded fill's rounded price lies on the trader's side of its base price
C9_Adverse(e) ==
  \A i \in 1..Len(Trades(e)) :
    IF Trades(e)[i].direction = "BUY"
    THEN Trades(e)[i].price >= trace[e].tradeBase[i]
    ELSE Trades(e)[i].price <= trace[e].tradeBase[i]

\* C9 amended: the cash form always holds; the cost form holds whenever the
\* rounded fill prices are not better for the trader than their base prices.
C9_CashIdentity ==
  \A e \in Engines : C9_CashForm(e) /\ (C9_Adverse(e) => C9_CostForm(e))

C9_Witness ==
  \E e \in Engines :
    /\ Len(Trades(e)) >= 3
    /\ \E i, j \in 1..Len(Trades(e)) :
         /\ Trades(e)[i].direction = "BUY" /\ Trades(e)[j].direction = "SELL"
         /\ Trades(e)[i].slippage > 0 /\ Trades(e)[j].slippage > 0
    /\ C9_Adverse(e)


C11_Ledger(e) ==
  <<Cash(e), Position(e), portfolio[e].position_avg_cost, Trades(e)>>

C11_OnlyExecuteFillWrites ==
  [][\A e \in Engines : ~FillStep(e) => C11_Ledger(e)' = C11_Ledger(e)]_vars

\* a bar is over with an order executed, a trade booked and the cash not a
\* whole number of cents
C11_Witness ==
  \E e \in Engines :
    /\ engine[e].pc = "bar" /\ Len(Equity(e)) >= 1
    /\ broker[e].order_count >= 1
    /\ Len(Trades(e)) >= 1
    /\ Cash(e) % Cent # 0


\* C12: strategy.init is called exactly once and before the first on_bar, and
\* on_bar is called exactly once per bar, in ascending bar order: at any moment
\* the hook calls made so far are init followed by one on_bar for each bar
\* started, and a completed run has made one on_bar call for every bar.
C12_BarsStarted(e) ==
  engine[e].idx + (IF engine[e].pc = "drain" /\ trace[e].dispatched # <<>> THEN 1 ELSE 0)

C12_InitOnceThenEachBarOnce ==
  \A e \in Engines :
    /\ trace[e].hooks =
         IF engine[e].pc = "init" THEN <<>>
         ELSE <<HookCall("init", 0)>>
                \o [i \in 1..C12_BarsStarted(e) |-> HookCall("on_bar", data[i].datetime)]
    /\ \A i \in 1..(Len(data) - 1) : data[i].datetime < data[i + 1].datetime
    /\ engine[e].pc = "done" => Len(trace[e].hooks) = 1 + Len(data)

\* a completed run over two bars in whose last bar on_order_filled emitted a
\* signal and the broker rejected an order
C12_Witness ==
  \E e \in Engines :
    /\ engine[e].pc = "done" /\ Len(data) >= 2
    /\ trace[e].lastOrder # <<>> /\ ~trace[e].lastOrder[1].filled
    /\ LET d == trace[e].dispatched IN
       \E i, j \in 1..Len(d) :
         d[i].type = "FILL" /\ d[j].type = "SIGNAL" /\ d[j].parent = d[i].id


\* C13: a bar table whose timestamps are not strictly increasing (out of
\* order or duplicated) and a capital that is not positive are refused at
\* construction: no on_bar call, no snapshot, no fill and no result follow.
C13_Malformed ==
  \/ cfg.capital <= 0
  \/ \E i \in 1..(Len(cfg.table) - 1) : cfg.table[i].datetime >= cfg.table[i + 1].datetime

C13_MalformedInputAborts ==
  C13_Malformed =>
    \A e \in Engines :
      /\ \A i \in 1..Len(trace[e].hooks) : trace[e].hooks[i].hook # "on_bar"
      /\ Equity(e) = <<>>
      /\ trace[e].fillCalls = 0
      /\ engine[e].pc # "done"


\* C14: an order the broker rejects for insufficient cash, insufficient
\* position, an untouched limit price or an order kind other than MARKET/LIMIT
\* resolves as no fill: no FillEvent, no trade, no portfolio change; the run is
\* not halted, it goes on with the bar's remaining events and the later bars.
C14_Rejected(order, bar, p) ==
  \/ order.order_type \notin {"MARKET", "LIMIT"}
  \/ order.order_type = "LIMIT" /\ order.direction = "BUY" /\ order.price[1] < bar.low
  \/ order.order_type = "LIMIT" /\ order.direction = "SELL" /\ order.price[1] > bar.high
  \/ /\ BasePrice(order, bar) # <<>>
     /\ \/ order.direction = "BUY" /\ C3_OrderCost(order, bar) > p.cash
        \/ order.direction = "SELL" /\ order.quantity > p.position

C14_NoFill ==
  \A e \in Engines :
    (OrderStep(e) /\ C14_Rejected(Head(Queue(e)), CurrentBar(e), portfolio[e]))
      => /\ Queue(e)' = Tail(Queue(e))
         /\ portfolio'[e] = portfolio[e]
         /\ engine'[e].pc = "drain" /\ engine'[e].idx = engine[e].idx

C14_GoesOn ==
  \A e \in Engines :
    (trace[e].lastOrder # <<>> /\ ~trace[e].lastOrder[1].filled)
      => /\ engine[e].pc \in {"bar", "drain", "done"}
         /\ engine[e].pc # "done" => ENABLED Run(e, LimitSignalSet)
         /\ engine[e].pc = "done" =>
              Len(Equity(e)) = Len(data) /\ Len(trace[e].hooks) = 1 + Len(data)

C14_RejectionIsNoFill == [][C14_NoFill]_vars /\ []C14_GoesOn

\* a completed run over two bars whose last order, of a kind the broker does
\* not know, was rejected in the first bar, after a fill
C14_Witness ==
  \E e \in Engines :
    /\ engine[e].pc = "done" /\ Len(data) = 2
    /\ trace[e].lastOrder # <<>>
    /\ LET last == trace[e].lastOrder[1] IN
       /\ ~last.filled
       /\ last.order.order_type = "STOP"
       /\ last.order.datetime = data[1].datetime
    /\ Len(Trades(e)) >= 1


\* C15: an exception raised in init, on_bar or on_order_filled leaves run()
\* at once: the raising step takes no snapshot and does not advance the bar,
\* and afterwards no event or bar is dispatched, no snapshot is appended and
\* no result is returned.
C15_RaisedForGood ==
  \A e \in Engines :
    /\ engine[e].pc = "raised" =>
         /\ engine'[e] = engine[e] /\ portfolio'[e] = portfolio[e]
         /\ broker'[e] = broker[e] /\ trace'[e] = trace[e]
    /\ (engine[e].pc # "raised" /\ engine'[e].pc = "raised") =>
         /\ Equity(e)' = Equity(e)
         /\ engine'[e].idx = engine[e].idx

C15_NoSnapshotOfFailedBar ==
  \A e \in Engines : engine[e].pc = "raised" => Len(Equity(e)) = engine[e].idx

C15_HookExceptionAborts == [][C15_RaisedForGood]_vars /\ []C15_NoSnapshotOfFailedBar

\* on_order_filled raised in the first of two bars, after the fill was booked
\* and with a signal still queued
C15_Witness ==
  \E e \in Engines :
    /\ engine[e].pc = "raised"
    /\ engine[e].idx + 1 < Len(data)
    /\ Queue(e) # <<>>
    /\ Len(Trades(e)) >= 1
    /\ trace[e].dispatched[Len(trace[e].dispatched)].type = "FILL"


\* what an order costs (BUY) when filled from the base price `base`
C16_Cost(order, base) ==
  LET actual == calculate_slippage(cfg, base, order.direction)
  IN  actual * order.quantity
        + calculate_commission(cfg, actual, order.quantity, order.direction)

\* the step enqueued a FillEvent for the order at the head, of base price `base`
C16_FilledAt(e, base) ==
  /\ Len(Queue(e)') = Len(Queue(e))
  /\ LET fill == Queue(e)'[Len(Queue(e)')] IN
     /\ fill.type = "FILL" /\ fill.parent = Head(Queue(e)).id
     /\ fill.base = base

\* C16: a LIMIT BUY order whose limit price is below the bar's low gets no
\* fill; one whose limit price is at or above the low, and whose cost the cash
\* covers, gets a fill whose base price is min(limit price, close).
C16_LimitBuy ==
  [][\A e \in Engines :
       LET order == Head(Queue(e))
           bar   == CurrentBar(e)
       IN  (OrderStep(e) /\ order.order_type = "LIMIT" /\ order.direction = "BUY")
             => /\ order.price[1] < bar.low => Queue(e)' = Tail(Queue(e))
                /\ (/\ order.price[1] >= bar.low
                    /\ C16_Cost(order, Min(order.price[1], bar.close)) <= Cash(e))
                     => C16_FilledAt(e, Min(order.price[1], bar.close))]_vars

\* a LIMIT BUY has just been filled from its limit price, below the close
C16_Witness ==
  \E e \in Engines :
    /\ engine[e].pc = "drain" /\ Queue(e) # <<>>
    /\ trace[e].lastOrder # <<>>
    /\ LET order == trace[e].lastOrder[1].order
           fill  == Queue(e)[Len(Queue(e))]
       IN  /\ order.order_type = "LIMIT" /\ order.direction = "BUY"
           /\ fill.type = "FILL" /\ fill.parent = order.id
           /\ fill.base = order.price[1]
           /\ fill.base < CurrentBar(e).close


\* C17: a LIMIT SELL order whose limit price is above the bar's high gets no
\* fill; one whose limit price is at or below the high, and whose quantity the
\* position covers, gets a fill whose base price is max(limit price, close).
C17_LimitSell ==
  [][\A e \in Engines :
       LET order == Head(Queue(e))
           bar   == CurrentBar(e)
       IN  (OrderStep(e) /\ order.order_type = "LIMIT" /\ order.direction = "SELL")
             => /\ order.price[1] > bar.high => Queue(e)' = Tail(Queue(e))
                /\ (order.price[1] <= bar.high /\ order.quantity <= Position(e))
                     => C16_FilledAt(e, Max(order.price[1], bar.close))]_vars

\* a LIMIT SELL has just been filled from its limit price, above the close
C17_Witness ==
  \E e \in Engines :
    /\ engine[e].pc = "drain" /\ Queue(e) # <<>>
    /\ trace[e].lastOrder # <<>>
    /\ LET order == trace[e].lastOrder[1].order
           fill  == Queue(e)[Len(Queue(e))]
       IN  /\ order.order_type = "LIMIT" /\ order.direction = "SELL"
           /\ fill.type = "FILL" /\ fill.parent = order.id
           /\ fill.base = order.price[1]
           /\ fill.base > CurrentBar(e).close


\* the step is an execute_order call that enqueued a FillEvent
C18_Accepted(e) == OrderStep(e) /\ Len(Queue(e)') = Len(Queue(e))

\* C18: a MARKET order's base price is the bar's close, and the actual price
\* of every accepted order is not on the trader's side of the base price:
\* at or above it for a BUY, at or below it for a SELL.
C18_AgainstTrader ==
  [][\A e \in Engines :
       LET order == Head(Queue(e))
           fill  == Queue(e)'[Len(Queue(e)')]
       IN  C18_Accepted(e)
             => /\ order.order_type = "MARKET" => fill.base = CurrentBar(e).close
                /\ order.direction = "BUY" => fill.fill_price >= fill.base
                /\ order.direction = "SELL" => fill.fill_price <= fill.base]_vars

\* C18 amended: a MARKET order's base price is the bar's close, and the actual
\* price of every accepted order is base * (1 + slippage) for a BUY and
\* base * (1 - slippage) for a SELL rounded to 4 decimals: a multiple of the
\* price tick at most half a tick away from that product, and not on the
\* trader's side of a base price that is itself a multiple of the tick.
C18_RoundedSlippage ==
  [][\A e \in Engines :
       LET order == Head(Queue(e))
           fill  == Queue(e)'[Len(Queue(e)')]
           moved == IF order.direction = "BUY"
                    THEN fill.base * (SlipDen + cfg.slipNum)
                    ELSE fill.base * (SlipDen - cfg.slipNum)
       IN  C18_Accepted(e)
             => /\ order.order_type = "MARKET" => fill.base = CurrentBar(e).close
                /\ fill.fill_price % Tick = 0
                /\ 2 * Abs(fill.fill_price * SlipDen - moved) <= Tick * SlipDen
                /\ fill.base % Tick = 0 =>
                     IF order.direction = "BUY" THEN fill.fill_price >= fill.base
                     ELSE fill.fill_price <= fill.base]_vars

\* a MARKET BUY has just been filled below its base price, the close, which is
\* not a multiple of the tick
C18_Witness ==
  \E e \in Engines :
    /\ engine[e].pc = "drain" /\ Queue(e) # <<>>
    /\ trace[e].lastOrder # <<>>
    /\ LET order == trace[e].lastOrder[1].order
           fill  == Queue(e)[Len(Queue(e))]
       IN  /\ order.order_type = "MARKET" /\ order.direction = "BUY"
           /\ fill.type = "FILL" /\ fill.parent = order.id
           /\ fill.base = CurrentBar(e).close
           /\ fill.base % Tick # 0
           /\ fill.fill_price < fill.base


\* the price an order is filled from, before slippage
C19_Base(order, bar) ==
  IF order.order_type = "MARKET" THEN bar.close
  ELSE IF order.direction = "BUY" THEN Min(order.price[1], bar.close)
  ELSE Max(order.price[1], bar.close)

\* C19: every FillEvent the broker emits has the order's direction, symbol and
\* timestamp and the order's full quantity, the commission of the fee model on
\* actual price x quantity, and slippage_cost = |actual price - base price| x
\* quantity.
C19_FullFill ==
  [][\A e \in Engines :
       LET order == Head(Queue(e))
           fill  == Queue(e)'[Len(Queue(e)')]
       IN  C18_Accepted(e)
             => /\ fill.type = "FILL"
                /\ fill.direction = order.direction
                /\ fill.symbol = order.symbol
                /\ fill.datetime = order.datetime
                /\ fill.quantity = order.quantity
                /\ fill.commission =
                     calculate_commission(cfg, fill.fill_price, order.quantity,
                                          order.direction)
                /\ fill.slippage_cost =
                     Abs(fill.fill_price - C19_Base(order, CurrentBar(e))) * order.quantity]_vars

\* an order for two shares has just been filled in full, with a commission and
\* a slippage cost, after an earlier trade
C19_Witness ==
  \E e \in Engines :
    /\ engine[e].pc = "drain" /\ Queue(e) # <<>>
    /\ trace[e].lastOrder # <<>>
    /\ LET order == trace[e].lastOrder[1].order
           fill  == Queue(e)[Len(Queue(e))]
       IN  /\ fill.type = "FILL" /\ fill.parent = order.id
           /\ fill.quantity = 2
           /\ fill.commission > 0 /\ fill.slippage_cost > 0
    /\ Len(Trades(e)) >= 1


\* the step is _handle_signal applied to the SignalEvent at the head of the queue
C20_SignalStep(e) ==
  /\ Dispatching(e, "SIGNAL")
  /\ Len(trace'[e].dispatched) = Len(trace[e].dispatched) + 1

\* the size the order of the signal at the head is to have, where every SELL
\* was requested with quantity 0: the position now for a SELL, the requested
\* quantity of a BUY if positive, else floor(0.95 * cash / close) cut down to
\* a multiple of the lot
C20_Size(e) ==
  LET signal == Head(Queue(e))
      whole  == (Cash(e) * BufferNum) \div (BufferDen * CurrentBar(e).close)
  IN  IF signal.direction = "SELL" THEN Position(e)
      ELSE IF signal.quantity > 0 THEN signal.quantity
      ELSE IF cfg.market = "A" THEN (whole \div LotA) * LotA
      ELSE whole

\* C20: a signal requested with quantity 0 is sized when it is dispatched, a
\* SELL to the whole position held then, a BUY to floor(0.95 x cash / close)
\* cut down to a multiple of the lot; a signal requested with a positive
\* quantity becomes an order of that quantity.
C20_SizedAtDispatch ==
  [][\A e \in Engines :
       (/\ C20_SignalStep(e)
        /\ Head(Queue(e)).direction = "BUY" => CurrentBar(e).close > 0)
         => IF C20_Size(e) > 0
            THEN /\ Len(Queue(e)') = Len(Queue(e))
                 /\ Queue(e)'[Len(Queue(e)')].type = "ORDER"
                 /\ Queue(e)'[Len(Queue(e)')].quantity = C20_Size(e)
            ELSE Queue(e)' = Tail(Queue(e))]_vars


\* the signal at the head is default-sized and its size comes to 0: a SELL with
\* no position, a BUY at a non-positive close or with 0.95 x cash short of one lot
C21_NothingToTrade(e) ==
  LET signal == Head(Queue(e))
      close  == CurrentBar(e).close
      lot    == IF cfg.market = "A" THEN LotA ELSE 1
  IN  /\ signal.quantity = 0
      /\ \/ signal.direction = "SELL" /\ Position(e) = 0
         \/ signal.direction = "BUY" /\ close <= 0
         \/ signal.direction = "BUY" /\ Cash(e) * BufferNum < lot * BufferDen * close

\* C21: a signal whose computed quantity is 0 is dropped: no OrderEvent is
\* enqueued, the broker is not called and the portfolio does not change.
C21_ZeroSizeIsDropped ==
  [][\A e \in Engines :
       (C20_SignalStep(e) /\ C21_NothingToTrade(e))
         => /\ Queue(e)' = Tail(Queue(e))
            /\ broker'[e] = broker[e]
            /\ portfolio'[e] = portfolio[e]]_vars

\* a default-sized BUY has just been dropped for want of cash, while shares
\* are held: nothing in the queue stems from it
C21_Witness ==
  \E e \in Engines :
    LET d == trace[e].dispatched IN
    /\ engine[e].pc = "drain" /\ d # <<>>
    /\ d[Len(d)].type = "SIGNAL"
    /\ \A k \in 1..Len(Queue(e)) : Queue(e)[k].parent # d[Len(d)].id
    /\ Position(e) > 0 /\ CurrentBar(e).close > 0
    /\ broker[e].order_count >= 1


\* amount * k / RateDen as <<whole units, remainder / RateDen>>
C22_Share(amount, k) ==
  <<(amount \div RateDen) * k + ((amount % RateDen) * k) \div RateDen,
    ((amount % RateDen) * k) % RateDen>>

\* the fee of the call f by the formulas of the fee model, unrounded
C22_Fee(f) ==
  LET amount == f.price * f.quantity
      prop   == C22_Share(amount, cfg.rateNum)
      tax    == C22_Share(amount, StampTaxNum)
      most   == IF prop[1] >= MinCommission THEN prop ELSE <<MinCommission, 0>>
  IN  IF cfg.market # "A" THEN prop
      ELSE IF f.direction = "SELL" THEN <<most[1] + tax[1], most[2] + tax[2]>>
      ELSE most

\* C22: the commission is max(trade_amount x rate, minimum commission), plus
\* trade_amount x tax rate on a SELL, in market "A" and trade_amount x rate in
\* the proportional market, with trade_amount = price x quantity; it is never
\* negative.
C22_ExactFee ==
  \A e \in Engines :
    trace[e].fee # <<>> =>
      LET f == trace[e].fee[1] IN
      /\ f.commission = C22_Fee(f)[1] /\ C22_Fee(f)[2] = 0
      /\ f.commission >= 0

\* C22 amended: the commission is that amount rounded to 2 decimals: a whole
\* number of cents at most half a cent away from it, and never negative (for
\* a price >= 0 and a quantity >= 0).
C22_RoundedFee ==
  \A e \in Engines :
    trace[e].fee # <<>> =>
      LET f == trace[e].fee[1] IN
      /\ f.commission % Cent = 0
      /\ 2 * Abs((f.commission - C22_Fee(f)[1]) * RateDen - C22_Fee(f)[2]) <= Cent * RateDen
      /\ f.commission >= 0

\* a SELL in market "A" whose proportional commission exceeds the minimum and
\* whose fee is not a whole number of cents
C22_Witness ==
  \E e \in Engines :
    /\ trace[e].fee # <<>>
    /\ LET f == trace[e].fee[1] IN
       /\ cfg.market = "A" /\ f.direction = "SELL"
       /\ C22_Share(f.price * f.quantity, cfg.rateNum)[1] > MinCommission
       /\ f.commission # C22_Fee(f)[1]


\* C23: an accepted BUY fill of cost = fill_price x quantity sets
\* position_avg_cost to (old average x old position + cost) / (old position +
\* quantity), adds quantity to the position and takes cost + commission from
\* the cash; an accepted SELL fill adds cost - commission to the cash, takes
\* quantity from the position, and sets position_avg_cost to 0 if the
\* position is then 0 and leaves it alone otherwise.
C23_FillEffect ==
  [][\A e \in Engines :
       (FillStep(e) /\ trace'[e].accepted) =>
         LET fill == Head(Queue(e))
             old  == portfolio[e]
             new  == portfolio'[e]
             cost == fill.fill_price * fill.quantity
         IN  IF fill.direction = "BUY"
             THEN /\ new.position = old.position + fill.quantity
                  /\ new.cash = old.cash - (cost + fill.commission)
                  \* new average x new position = old average x old position + cost
                  /\ new.position > 0
                  /\ Frac(new.position_avg_cost[1] * new.position, new.position_avg_cost[2])
                       = Frac(old.position_avg_cost[1] * old.position
                                + cost * old.position_avg_cost[2],
                              old.position_avg_cost[2])
             ELSE /\ new.cash = old.cash + (cost - fill.commission)
                  /\ new.position = old.position - fill.quantity
                  /\ new.position_avg_cost =
                       IF new.position = 0 THEN <<0, 1>> ELSE old.position_avg_cost]_vars

\* a BUY has just been booked on top of shares bought at another price: the
\* average cost is not a whole number of units
C23_Witness ==
  \E e \in Engines :
    /\ trace[e].fillCalls > 0 /\ trace[e].accepted
    /\ Len(Trades(e)) >= 2
    /\ Trades(e)[Len(Trades(e))].direction = "BUY"
    /\ Position(e) > Trades(e)[Len(Trades(e))].quantity
    /\ portfolio[e].position_avg_cost[2] > 1


\* C24: the trade history is append-only and mirrors the accepted fills: a
\* fill that execute_fill accepts appends exactly one Trade carrying the fill's
\* timestamp, symbol, direction, fill price, quantity, commission and slippage
\* cost; no other step touches the history, so recorded trades are never
\* changed or removed; and the history is as long as the number of accepted
\* fills.
C24_AppendOnlyTrades ==
  [][\A e \in Engines :
       /\ IF FillStep(e) /\ trace'[e].accepted
          THEN LET fill == Head(Queue(e)) IN
               Trades(e)' = Append(Trades(e),
                  [datetime |-> fill.datetime, symbol |-> fill.symbol,
                   direction |-> fill.direction, price |-> fill.fill_price,
                   quantity |-> fill.quantity, commission |-> fill.commission,
                   slippage |-> fill.slippage_cost])
          ELSE Trades(e)' = Trades(e)
       /\ Len(Trades(e)') = Len(trace'[e].tradeBase)]_vars

\* a second fill has been accepted after one was refused, and it was
\* recorded with a slippage cost
C24_Witness ==
  \E e \in Engines :
    /\ trace[e].accepted
    /\ Len(Trades(e)) >= 2
    /\ trace[e].fillCalls > Len(Trades(e))
    /\ Trades(e)[Len(Trades(e))].slippage > 0


\* the step appends a snapshot to the equity curve
C25_SnapshotStep(e) == Len(Equity(e)') = Len(Equity(e)) + 1

\* the snapshot is the bar's own and nothing of the bar is still queued
C25_AfterTheBar(e) ==
  /\ Queue(e) = <<>>
  /\ Equity(e)' = Append(Equity(e), Equity(e)'[Len(Equity(e)')])
  /\ Equity(e)'[Len(Equity(e)')].datetime = CurrentBar(e).datetime
  /\ C11_Ledger(e)' = C11_Ledger(e)

\* the amount in whole cents nearest to x, ties to the even cent
C25_Cents(x) ==
  LET lo == Cent * (x \div Cent)
      r  == x - lo
  IN  IF 2 * r < Cent THEN lo
      ELSE IF 2 * r > Cent THEN lo + Cent
      ELSE IF (x \div Cent) % 2 = 0 THEN lo ELSE lo + Cent

\* C25 as claimed: each bar's snapshot is taken after all of the bar's fills
\* and holds the ledger's cash and position, market_value = position x close
\* and total_equity = cash + market_value.
C25_ExactSnapshot ==
  [][\A e \in Engines :
       C25_SnapshotStep(e) =>
         LET snap == Equity(e)'[Len(Equity(e)')] IN
         /\ C25_AfterTheBar(e)
         /\ snap.cash = Cash(e)
         /\ snap.position = Position(e)
         /\ snap.market_value = Position(e) * CurrentBar(e).close
         /\ snap.total_equity = snap.cash + snap.market_value]_vars

\* C25 amended: each bar's snapshot is taken after all of the bar's fills and
\* holds the ledger's position and, each rounded to whole cents on its own,
\* the ledger's cash, position x close, and cash + position x close.
C25_RoundedSnapshot ==
  [][\A e \in Engines :
       C25_SnapshotStep(e) =>
         LET snap == Equity(e)'[Len(Equity(e)')] IN
         /\ C25_AfterTheBar(e)
         /\ snap.cash = C25_Cents(Cash(e))
         /\ snap.position = Position(e)
         /\ snap.market_value = C25_Cents(Position(e) * CurrentBar(e).close)
         /\ snap.total_equity = C25_Cents(Cash(e) + Position(e) * CurrentBar(e).close)]_vars

\* a bar with an accepted fill is over; shares are held and the snapshot's
\* cash is not the ledger's
C25_Witness ==
  \E e \in Engines :
    /\ engine[e].pc = "bar" /\ Len(Equity(e)) >= 1
    /\ Len(Trades(e)) >= 1
    /\ Trades(e)[Len(Trades(e))].datetime = Equity(e)[Len(Equity(e))].datetime
    /\ Position(e) > 0
    /\ Equity(e)[Len(Equity(e))].cash # Cash(e)


\* the FillEvents of a queue
C26_Fills(queue) == SelectSeq(queue, LAMBDA event : event.type = "FILL")

\* the order at the head of the queue is handed to the broker for the first
\* time, in its own bar, and leaves the queue for good with one FillEvent of
\* its own appended or with nothing appended
C26_HandedOnce(e) ==
  LET order == Head(Queue(e)) IN
  /\ order.datetime = CurrentBar(e).datetime
  /\ \A i \in 1..Len(trace[e].dispatched) : trace[e].dispatched[i].id # order.id
  /\ \/ Queue(e)' = Tail(Queue(e))
     \/ /\ Len(Queue(e)') = Len(Queue(e))
        /\ SubSeq(Queue(e)', 1, Len(Queue(e)) - 1) = Tail(Queue(e))
        /\ LET fill == Queue(e)'[Len(Queue(e)')] IN
             /\ fill.type = "FILL" /\ fill.parent = order.id
             /\ fill.datetime = order.datetime

\* every queued event belongs to the current bar, and between the bars
\* nothing is queued
C26_NothingPending(e) ==
  /\ \A i \in 1..Len(Queue(e)) : Queue(e)[i].datetime = CurrentBar(e).datetime
  /\ engine[e].pc \in {"bar", "done"} => Queue(e) = <<>>

\* C26: every order event is handed to the broker exactly once, in the bar
\* that created it, and is resolved in that very step: either exactly one
\* FillEvent for it is queued or none is; FillEvents come from nowhere else;
\* a rejected order is never queued again or carried to a later bar; and no
\* order is waiting when the bar's snapshot is taken.
C26_ResolvedAtOnce ==
  /\ [][\A e \in Engines :
          /\ OrderStep(e) => C26_HandedOnce(e)
          /\ ~OrderStep(e) => Len(C26_Fills(Queue(e)')) <= Len(C26_Fills(Queue(e)))
          /\ C25_SnapshotStep(e) => Queue(e) = <<>>]_vars
  /\ [](\A e \in Engines : C26_NothingPending(e))

\* a bar is over in which one order was filled and a later one rejected
C26_Witness ==
  \E e \in Engines :
    /\ engine[e].pc = "bar" /\ Len(Equity(e)) >= 1
    /\ trace[e].lastOrder # <<>> /\ ~trace[e].lastOrder[1].filled
    /\ trace[e].lastOrder[1].order.datetime = Equity(e)[Len(Equity(e))].datetime
    /\ \E i \in 1..Len(trace[e].dispatched) : trace[e].dispatched[i].type = "FILL"


\* the default size of a BUY made with the whole capital at the first bar's
\* close, lot size 1
C27_Quantity ==
  IF data[1].close > 0
  THEN Trunc(cfg.capital * BufferNum, BufferDen * data[1].close) ELSE 0

\* the buy-then-sell run has returned with two trades, a BUY of the default
\* size at the first close and a SELL of as many shares at the second, and
\* cash = capital - buy_cost - buy_commission + sell_revenue - sell_commission
C27_TwoTrades(e) ==
  LET buy_price       == calculate_slippage(cfg, data[1].close, "BUY")
      sell_price      == calculate_slippage(cfg, data[2].close, "SELL")
      buy_cost        == buy_price * C27_Quantity
      sell_revenue    == sell_price * C27_Quantity
      buy_commission  == calculate_commission(cfg, buy_price, C27_Quantity, "BUY")
      sell_commission == calculate_commission(cfg, sell_price, C27_Quantity, "SELL")
  IN  /\ Len(Trades(e)) = 2
      /\ Trades(e)[1].direction = "BUY" /\ Trades(e)[1].quantity = C27_Quantity
      /\ Trades(e)[2].direction = "SELL" /\ Trades(e)[2].quantity = C27_Quantity
      /\ Position(e) = 0
      /\ Cash(e) = cfg.capital - buy_cost - buy_commission + sell_revenue - sell_commission

C28_Kinds(e) == [i \in 1..Len(trace[e].dispatched) |-> trace[e].dispatched[i].type]

\* this bar's on_bar emitted exactly two signals
C28_TwoSignals(e) ==
  /\ Len(trace[e].dispatched) >= 3
  /\ trace[e].dispatched[2].parent = 1 /\ trace[e].dispatched[3].parent = 1

\* two requests of one direction, each within the funds (BUY: cost1, cost2)
\* or the position (SELL: quantity1, quantity2), together beyond them
C28_TogetherExceed(direction1, direction2, cost1, cost2, quantity1, quantity2, cash, position) ==
  /\ direction1 = direction2
  /\ IF direction1 = "BUY"
     THEN cost1 <= cash /\ cost2 <= cash /\ cost1 + cost2 > cash
     ELSE quantity1 <= position /\ quantity2 <= position
          /\ quantity1 + quantity2 > position

C28_FillCost(fill) == fill.fill_price * fill.quantity + fill.commission

\* the second order is checked: the first one's fill is queued behind it and
\* the broker queues a fill for the second too
C28_BothFilled(e) ==
  LET order == Head(Queue(e))
      first == Queue(e)[2]
  IN  (/\ OrderStep(e)
       /\ C28_Kinds(e) = <<"MARKET", "SIGNAL", "SIGNAL", "ORDER">> /\ C28_TwoSignals(e)
       /\ Len(Queue(e)) = 2 /\ first.type = "FILL"
       /\ C28_TogetherExceed(first.direction, order.direction,
                             C28_FillCost(first), C3_OrderCost(order, CurrentBar(e)),
                             first.quantity, order.quantity, Cash(e), Position(e)))
        => /\ Len(Queue(e)') = 2
           /\ Queue(e)'[1] = first
           /\ Queue(e)'[2].type = "FILL" /\ Queue(e)'[2].parent = order.id

\* the first of the two fills is applied
C28_FirstApplied(e) ==
  LET first  == Queue(e)[1]
      second == Queue(e)[2]
  IN  (/\ FillStep(e)
       /\ C28_Kinds(e) = <<"MARKET", "SIGNAL", "SIGNAL", "ORDER", "ORDER">>
       /\ C28_TwoSignals(e)
       /\ Len(Queue(e)) = 2 /\ second.type = "FILL"
       /\ C28_TogetherExceed(first.direction, second.direction,
                             C28_FillCost(first), C28_FillCost(second),
                             first.quantity, second.quantity, Cash(e), Position(e)))
        => /\ trace'[e].accepted
           /\ Len(Trades(e)') = Len(Trades(e)) + 1
           /\ Cash(e)' >= 0 /\ Position(e)' >= 0

\* the second of the two fills is refused: the bar has one trade
C28_SecondRefused(e) ==
  LET second == Head(Queue(e))
      first  == Trades(e)[Len(Trades(e))]
      before == trace[e].lastOrder[1]
  IN  (/\ FillStep(e)
       /\ C28_Kinds(e) = <<"MARKET", "SIGNAL", "SIGNAL", "ORDER", "ORDER", "FILL">>
       /\ C28_TwoSignals(e)
       /\ trace[e].accepted /\ Trades(e) # <<>>
       /\ C28_TogetherExceed(first.direction, second.direction,
                             first.price * first.quantity + first.commission,
                             C28_FillCost(second),
                             first.quantity, second.quantity,
                             before.cash, before.position))
        => /\ ~trace'[e].accepted
           /\ C11_Ledger(e)' = C11_Ledger(e)
           /\ Len(SelectSeq(Trades(e)',
                            LAMBDA t : t.datetime = CurrentBar(e).datetime)) = 1
           /\ Cash(e)' >= 0 /\ Position(e)' >= 0

\* C28: when one on_bar call emits two signals whose orders each pass the
\* broker's check against the portfolio as it is before any fill, but which
\* together need more than the cash (two BUYs) or the position (two SELLs),
\* the broker queues both fills, the first is applied, execute_fill refuses
\* the second, the bar records exactly one trade, and cash and position are
\* never negative.
C28_StaleBrokerCheck ==
  [][\A e \in Engines :
       C28_BothFilled(e) /\ C28_FirstApplied(e) /\ C28_SecondRefused(e)]_vars


\* C29: on_order_filled is called for a fill only if execute_fill accepted
\* it: the hook has been called as many times as trades are recorded, and the
\* fill of the last call is the last trade of the history.
C29_NotifiedOnlyIfAccepted ==
  \A e \in Engines :
    /\ trace[e].fillCalls = Len(Trades(e))
    /\ trace[e].fillCalls > 0 => trace[e].accepted


\* in the first bar's dispatch loop, after at least two trades, the ledger is
\* as it was before the first fill and the only queued event is a fill that
\* differs from the first one applied in nothing but its event number
C30_BackWhereItWas(e) ==
  /\ engine[e].pc = "drain" /\ engine[e].idx = 0
  /\ Len(Trades(e)) >= 2
  /\ Cash(e) = cfg.capital /\ Position(e) = 0
  /\ portfolio[e].position_avg_cost = <<0, 1>>
  /\ Len(Queue(e)) = 1 /\ Head(Queue(e)).type = "FILL"
  /\ LET fill == Head(Queue(e)) IN
       [datetime |-> fill.datetime, symbol |-> fill.symbol,
        direction |-> fill.direction, price |-> fill.fill_price,
        quantity |-> fill.quantity, commission |-> fill.commission,
        slippage |-> fill.slippage_cost] = Trades(e)[1]

\* C30: whatever finite number of signals each on_bar and on_order_filled
\* call emits, every bar's dispatch loop reaches an empty queue and the run
\* returns.  The loop is deterministic and the hooks see only the event they
\* are given and the ledger, so it can end only if it never comes back, with
\* the same fill waiting, to a ledger it already had in this bar.
C30_DispatchLoopEnds == \A e \in Engines : ~C30_BackWhereItWas(e)


\* the default size of a BUY for the given cash and close: 95% of the cash
\* over the close, cut down to a whole number of lots
C31_DefaultSize(cash, close) ==
  IF close <= 0 \/ cash <= 0 THEN 0
  ELSE LET quantity == (cash * BufferNum) \div (BufferDen * close)
       IN  IF cfg.market = "A" THEN quantity - (quantity % LotA) ELSE quantity

\* a MARKET BUY of the default size for this ledger and bar, at least one share
C31_DefaultSized(order, bar, cash) ==
  /\ order.direction = "BUY" /\ order.order_type = "MARKET"
  /\ order.quantity >= 1
  /\ order.quantity = C31_DefaultSize(cash, bar.close)

\* C31: the 5% buffer of the default BUY size does not rule rejection out: a
\* BUY order of the default size whose cost with slippage and commission
\* exceeds the cash is rejected by the broker, which queues no fill and
\* leaves the portfolio as it was; such orders occur (C31_Witness).
C31_BufferIsNoGuarantee ==
  [][\A e \in Engines :
       LET order == Head(Queue(e)) IN
       (/\ OrderStep(e)
        /\ C31_DefaultSized(order, CurrentBar(e), Cash(e))
        /\ C3_OrderCost(order, CurrentBar(e)) > Cash(e))
         => (Queue(e)' = Tail(Queue(e)) /\ portfolio'[e] = portfolio[e])]_vars

\* the bar's only signal so far, a BUY of the default size with quantity x
\* close within 95% of the cash, was rejected by the broker for lack of funds
C31_Witness ==
  \E e \in Engines :
    /\ engine[e].pc = "drain"
    /\ C28_Kinds(e) = <<"MARKET", "SIGNAL", "ORDER">>
    /\ trace[e].lastOrder # <<>>
    /\ LET last == trace[e].lastOrder[1] IN
       /\ ~last.filled
       /\ last.cash = Cash(e)
       /\ last.order.datetime = CurrentBar(e).datetime
       /\ C31_DefaultSized(last.order, CurrentBar(e), last.cash)
       /\ BufferDen * (CurrentBar(e).close * last.order.quantity) <= BufferNum * last.cash
       /\ C3_OrderCost(last.order, CurrentBar(e)) > last.cash
    /\ Queue(e) = <<>>


\* C32: a limit order is never filled at a price worse than its limit: the
\* fill price of every filled LIMIT BUY is <= its limit price and the fill
\* price of every filled LIMIT SELL is >= its limit price, whatever the
\* slippage fraction.
C32_NeverWorseThanLimit ==
  [][\A e \in Engines :
       LET order == Head(Queue(e)) IN
       (OrderStep(e) /\ order.order_type = "LIMIT" /\ C18_Accepted(e)) =>
         LET fill == Queue(e)'[Len(Queue(e)')] IN
         IF order.direction = "BUY"
         THEN fill.fill_price <= order.price[1]
         ELSE fill.fill_price >= order.price[1]]_vars


\* C33: a LIMIT order that carries no limit price is resolved as 'no fill'
\* like any rejection: execute_order returns without raising, nothing is
\* queued for the order, the portfolio is untouched, and the run goes on with
\* the next event and bar.
C33_NoPriceIsNoFill ==
  [][\A e \in Engines :
       LET order == Head(Queue(e)) IN
       (OrderStep(e) /\ order.order_type = "LIMIT" /\ order.price = NoPrice)
         => /\ Queue(e)' = Tail(Queue(e))
            /\ portfolio'[e] = portfolio[e]
            /\ engine'[e].pc = "drain" /\ engine'[e].idx = engine[e].idx]_vars


\* cash + position x close, the equity of engine e valued at the bar's close
C34_Value(e) == Cash(e) + Position(e) * CurrentBar(e).close

\* what the trader loses on the price of a fill: quantity x (fill price -
\* close) for a BUY, quantity x (close - fill price) for a SELL
C34_PriceLoss(fill, close) ==
  IF fill.direction = "BUY" THEN fill.quantity * (fill.fill_price - close)
  ELSE fill.quantity * (close - fill.fill_price)

\* C34 as claimed: right after an accepted MARKET fill, cash + position x
\* close is its value right before minus the fill's commission + slippage
\* cost, and so never above it.
C34_FillCostsItsFees ==
  [][\A e \in Engines :
       (FillStep(e) /\ trace'[e].accepted) =>
         LET fill == Head(Queue(e)) IN
         /\ C34_Value(e)' = C34_Value(e) - (fill.commission + fill.slippage_cost)
         /\ C34_Value(e)' <= C34_Value(e)]_vars

\* C34 amended: right after an accepted MARKET fill, cash + position x close
\* is its value right before minus the commission and minus the price loss
\* quantity x (fill price - close) (BUY) or quantity x (close - fill price)
\* (SELL); when the rounded fill price is not on the trader's side of the
\* close, the price loss is the fill's slippage cost and the value does not
\* grow.
C34_FillCostsFeesAndPrice ==
  [][\A e \in Engines :
       (FillStep(e) /\ trace'[e].accepted) =>
         LET fill == Head(Queue(e))
             loss == C34_PriceLoss(fill, CurrentBar(e).close)
         IN  /\ C34_Value(e)' = C34_Value(e) - fill.commission - loss
             /\ fill.slippage_cost = Abs(loss)
             /\ loss >= 0 =>
                  /\ C34_Value(e)' = C34_Value(e) - (fill.commission + fill.slippage_cost)
                  /\ C34_Value(e)' <= C34_Value(e)]_vars

\* a SELL has just been booked below the close, after a BUY booked above the
\* close it was made at, both with a commission
C34_Witness ==
  \E e \in Engines :
    /\ trace[e].fillCalls >= 2 /\ trace[e].accepted
    /\ Len(Trades(e)) >= 2
    /\ LET buy  == Trades(e)[Len(Trades(e)) - 1]
           sell == Trades(e)[Len(Trades(e))]
       IN  /\ buy.direction = "BUY" /\ sell.direction = "SELL"
           /\ buy.slippage > 0 /\ sell.slippage > 0
           /\ buy.commission > 0 /\ sell.commission > 0
           /\ buy.price > trace[e].tradeBase[Len(Trades(e)) - 1]
           /\ sell.price < trace[e].tradeBase[Len(Trades(e))]


\* the position that the trades stamped dt or earlier add up to
RECURSIVE C35_Held(_, _)
C35_Held(trades, dt) ==
  IF trades = <<>> THEN 0
  ELSE LET t == trades[1]
           q == IF t.datetime > dt THEN 0
                ELSE IF t.direction = "BUY" THEN t.quantity ELSE -t.quantity
       IN  q + C35_Held(Tail(trades), dt)

\* C35: every queued signal, order and fill, also a signal emitted from
\* on_order_filled, carries the timestamp of the bar being processed, and so
\* does every trade recorded in the bar; trade timestamps never decrease
\* along the history; and a trade is first reflected by the snapshot that
\* carries its timestamp: each snapshot's position is what the trades stamped
\* up to its timestamp add up to, and no trade is stamped later than the bar
\* being processed.
C35_StampedWithTheBar ==
  \A e \in Engines :
    /\ \A i \in 1..Len(Queue(e)) : Queue(e)[i].datetime = CurrentBar(e).datetime
    /\ \A i \in 1..Len(Trades(e)) :
         /\ i > 1 => Trades(e)[i - 1].datetime <= Trades(e)[i].datetime
         /\ IF engine[e].pc = "drain"
            THEN Trades(e)[i].datetime <= CurrentBar(e).datetime
            ELSE \E k \in 1..Len(Equity(e)) : Equity(e)[k].datetime = Trades(e)[i].datetime
    /\ \A k \in 1..Len(Equity(e)) :
         Equity(e)[k].position = C35_Held(Trades(e), Equity(e)[k].datetime)

\* the second bar is over; it recorded a trade for a signal that
\* on_order_filled emitted, after a trade of the first bar
C35_Witness ==
  \E e \in Engines :
    /\ engine[e].pc = "bar" /\ Len(Equity(e)) = 2
    /\ Len(Trades(e)) >= 3
    /\ Trades(e)[1].datetime = data[1].datetime
    /\ Trades(e)[Len(Trades(e))].datetime = data[2].datetime
    /\ Trades(e)[Len(Trades(e)) - 1].datetime = data[2].datetime
    /\ \E i \in 1..Len(trace[e].dispatched) :
         /\ trace[e].dispatched[i].type = "SIGNAL"
         /\ trace[e].dispatched[i].parent > 1
    /\ Equity(e)[1].position # Equity(e)[2].position


\* every queued OrderEvent has quantity > 0, and every queued FillEvent has
\* quantity > 0, commission >= 0 and slippage_cost >= 0
C36_Sized(e) ==
  \A i \in 1..Len(Queue(e)) :
    LET event == Queue(e)[i] IN
    /\ event.type = "ORDER" => event.quantity > 0
    /\ event.type = "FILL" =>
         event.quantity > 0 /\ event.commission >= 0 /\ event.slippage_cost >= 0

\* the bars' prices are positive
C36_PositivePrices ==
  \A i \in 1..Len(data) : data[i].low > 0 /\ data[i].close > 0 /\ data[i].high > 0

\* C36 as claimed: every OrderEvent the engine enqueues has quantity > 0,
\* also for a signal of zero or negative quantity, and every FillEvent for a
\* bar with positive prices has quantity > 0, fill_price > 0, commission >= 0
\* and slippage_cost >= 0.
C36_WellFormedEvents ==
  \A e \in Engines :
    /\ C36_Sized(e)
    /\ C36_PositivePrices =>
         \A i \in 1..Len(Queue(e)) :
           Queue(e)[i].type = "FILL" => Queue(e)[i].fill_price > 0

\* C36 amended: the same, with fill_price >= 0 for every FillEvent and
\* fill_price > 0 when the base price is at least one price tick (0.0001).
C36_WellFormedFromOneTick ==
  \A e \in Engines :
    /\ C36_Sized(e)
    /\ \A i \in 1..Len(Queue(e)) :
         Queue(e)[i].type = "FILL" =>
           /\ Queue(e)[i].fill_price >= 0
           /\ Queue(e)[i].base >= Tick => Queue(e)[i].fill_price > 0

\* a fill is queued for an order of the default size, at a base price above
\* one tick that the rounding has moved
C36_Witness ==
  \E e \in Engines :
    /\ C36_PositivePrices
    /\ \E i \in 1..Len(Queue(e)) :
         LET event == Queue(e)[i] IN
         /\ event.type = "FILL"
         /\ event.base >= Tick /\ event.fill_price > 0
         /\ event.slippage_cost > 0
         /\ event.quantity > 2


\* all that belongs to the run of engine e: its queue and loop position, its
\* portfolio, its broker and its history
C37_Own(e) == <<engine[e], portfolio[e], broker[e], trace[e]>>

\* the number of bars engine e has completed, if it is between two bars
C37_BarsDone(e) == IF engine[e].pc \in {"bar", "done"} THEN engine[e].idx ELSE -1

\* C37: two engines with their own portfolio, broker, queue and strategy
\* share no state: a step of one engine changes nothing of the other, so
\* each run goes as if it were alone; and however their bars are
\* interleaved, two runs of the same strategy over the same table that have
\* completed the same number of bars have the same equity curve and the same
\* trade history.
C37_NoSharedState ==
  /\ [][\A e \in Engines :
          C37_Own(e)' # C37_Own(e) =>
            \A x \in Engines \ {e} : C37_Own(x)' = C37_Own(x)]_vars
  /\ [](\A e, x \in Engines :
          (C37_BarsDone(e) >= 0 /\ C37_BarsDone(e) = C37_BarsDone(x))
            => (Equity(e) = Equity(x) /\ Trades(e) = Trades(x)))

\* engine 2 is inside its second bar with an order executed in it, while
\* engine 1 waits after its first bar; both have a trade from the first bar
C37_Witness ==
  /\ engine[1].pc = "bar" /\ engine[1].idx = 1 /\ Len(data) = 2
  /\ engine[2].pc = "drain" /\ engine[2].idx = 1
  /\ Len(Trades(1)) >= 1
  /\ broker[2].order_count > broker[1].order_count
  /\ Len(Trades(2)) > Len(Trades(1))

====
